---- MODULE Spec2Model ----
(***************************************************************************)
(* Model of the Event View (crates/vizia_core/src/context/event.rs): the   *)
(* per-dispatch projection of the shared UI state that event handlers use  *)
(* to change focus, capture, pseudo-classes, invalidation flags and the    *)
(* event queue.                                                            *)
(***************************************************************************)
EXTENDS Integers, Sequences, FiniteSets, TLC

\* ------------------------------------------------------------------------
\* Bounds
\* ------------------------------------------------------------------------
\* Number of entities of the tree (entity 0 is the root).
NumEntities == 3
\* Longest event queue the model lets the handlers build.
MaxQueue == 6
\* Number of handler calls explored by the specification of all operations.
MaxCalls == 2
\* Number of detached workers spawned, and of events each of them sends.
MaxWorkers == 2
MaxSends == 2

\* ------------------------------------------------------------------------
\* Entities and the tree
\* ------------------------------------------------------------------------
Entities == 0 .. (NumEntities - 1)
\* Entity::root()
Root == 0
\* Entity::null()
Null == -1

\* The shapes of the tree: every entity but the root has a parent created
\* before it.
Trees == { p \in [Entities -> Entities \cup {Null}] :
             /\ p[Root] = Null
             /\ \A e \in Entities \ {Root} : p[e] \in 0 .. (e - 1) }

VARIABLES
    tree,                \* tree[e]: parent of e (Null for the root)
    current,             \* EventContext.current
    pseudo_classes,      \* style.pseudo_classes: entity -> set of flags
    classes,             \* style.classes: entity -> set of class names
    focused,             \* *EventContext.focused
    captured,            \* *EventContext.captured
    hovered,             \* *EventContext.hovered
    cursor,              \* style.cursor: entity -> cursor icon
    event_queue,         \* *EventContext.event_queue
    system_flags,        \* style.system_flags
    cursor_icon_locked,  \* *EventContext.cursor_icon_locked
    window_size,         \* *EventContext.window_size
    user_scale_factor,   \* *EventContext.user_scale_factor
    themes,              \* resource_manager.themes
    stylesheets,         \* resource_manager.stylesheets
    rules,               \* the style rules installed in the style store
    listeners,           \* keys of EventContext.listeners
    ignore_default_theme,\* *EventContext.ignore_default_theme
    calls,               \* handler calls made so far
    last,                \* the last handler call and the state it started in
    last_capture,        \* the last capture() call and releases since
    props,               \* style: the property tables read by the resolvers
    cache,               \* cache: per-entity bounds and opacity
    out,                 \* the value returned by the last resolver call
    canvas,              \* the canvas device: images created, commands run
    draw_cache,          \* draw_cache.shadow_image: entity -> image pair
    data,                \* data and views: the models and the view of each entity
    detached             \* event_proxy, the spawned workers and the events sent

vars == << tree, current, pseudo_classes, classes, focused, captured, hovered,
           cursor, event_queue, system_flags, cursor_icon_locked, window_size,
           user_scale_factor, themes, stylesheets, rules, listeners,
           ignore_default_theme, calls, last, last_capture, props, cache,
           out, canvas, draw_cache, data, detached >>

\* The state the handlers of the Event View read but never write.
resolverVars == << props, cache, out, canvas, draw_cache, data, detached >>
\* The state of the Draw View and of the detached work.
deviceVars == << canvas, draw_cache, data, detached >>

\* The window sizes and user scale factors (in tenths) a handler may set.
DefaultWindowSize == [ width |-> 800, height |-> 600 ]
WindowSizes == { DefaultWindowSize, [ width |-> 1024, height |-> 768 ] }
DefaultScaleFactor == 10
ScaleFactors == { 10, 15 }
\* The class names, messages and pre-built events a handler may use.
ClassNames == { "accent" }
Messages == { << "Message" >> }
CustomEvents == { [ message |-> << "Custom" >>, target |-> Root,
                    origin |-> Null, propagation |-> "Subtree" ] }
\* Cursor icons; CursorIcon::default().
CursorIcons == { "Default", "Hand" }
\* super::LIGHT_THEME and super::DARK_THEME
LIGHT_THEME == "light"
DARK_THEME == "dark"

\* PseudoClassFlags
PseudoClassFlags == { "HOVER", "ACTIVE", "FOCUS", "FOCUS_VISIBLE",
                      "FOCUS_WITHIN", "CHECKED", "SELECTED" }
\* SystemFlags
SystemFlags == { "RESTYLE", "RELAYOUT", "REDRAW", "REFLOW" }

\* Entity::parent_iter: the entity itself, then its parent, up to the root.
\* An entity outside the tree has no parent.
RECURSIVE parent_iter(_, _)
parent_iter(t, e) ==
    IF e \notin DOMAIN t THEN << e >>
    ELSE IF t[e] = Null THEN << e >>
    ELSE << e >> \o parent_iter(t, t[e])

\* The entities parent_iter visits.
Chain(t, e) == { parent_iter(t, e)[i] : i \in 1 .. Len(parent_iter(t, e)) }

\* PseudoClassFlags::set(flag, value) on the row of entity e, when e has one
\* (the `if let Some(pseudo_classes) = ...get_mut(e)` of every setter).
SetFlag(pc, e, flag, value) ==
    IF e \in DOMAIN pc
    THEN [pc EXCEPT ![e] = IF value THEN @ \cup {flag} ELSE @ \ {flag}]
    ELSE pc

\* Event::new(message).target(t).origin(o).propagate(p)
Event(message, target, origin, propagation) ==
    [ message |-> message, target |-> target, origin |-> origin,
      propagation |-> propagation ]

\* emit_to with the target recorded as the origin.
emit_to_queue_origin_target(q, cur, target, message) ==
    Append(q, Event(message, target, target, "Direct"))

\* EmitContext::emit_to as a function of the queue.
emit_to_queue(q, cur, target, message) ==
    Append(q, Event(message, target, cur, "Direct"))

\* emit with the event pushed at the front of the queue.
emit_queue_push_front(q, cur, message) ==
    << Event(message, cur, cur, "Up") >> \o q

\* EmitContext::emit as a function of the queue.
emit_queue(q, cur, message) ==
    Append(q, Event(message, cur, cur, "Up"))

\* Style::needs_restyle, needs_relayout, needs_redraw.
needs_restyle_flags(f) == f \cup {"RESTYLE"}
needs_relayout_flags(f) == f \cup {"RELAYOUT"}
needs_redraw_flags(f) == f \cup {"REDRAW"}

\* The record of a handler call: its name, the entity of the view, its
\* boolean argument, the focus and capture holders it started with, its
\* result, and for reload_styles the files std::fs could not read, the files
\* it tried to read in order, the file whose error it returned and whether
\* parse_theme ran.
Call(op, flag) ==
    [ op |-> op, current |-> current, flag |-> flag,
      focused |-> focused, captured |-> captured, result |-> "Ok",
      unreadable |-> {}, reads |-> << >>, error |-> "", parsed |-> FALSE ]

NoCall == [ op |-> "none", current |-> Null, flag |-> FALSE,
            focused |-> Null, captured |-> Null, result |-> "Ok",
            unreadable |-> {}, reads |-> << >>, error |-> "", parsed |-> FALSE ]

\* ------------------------------------------------------------------------
\* Focus
\* ------------------------------------------------------------------------
\* The ancestor loop of set_focus_pseudo_classes over the first n entities
\* of parent_iter.
RECURSIVE set_focus_within(_, _, _, _)
set_focus_within(pc, chain, n, enabled) ==
    IF n = 0 THEN pc
    ELSE SetFlag(set_focus_within(pc, chain, n - 1, enabled),
                 chain[n], "FOCUS_WITHIN", enabled)

\* set_focus_pseudo_classes with the ancestor loop run only when enabling.
set_focus_pseudo_classes_no_clear(pc, t, entity, enabled, focus_visible) ==
    LET pc1 == SetFlag(pc, entity, "FOCUS", enabled)
        pc2 == IF (~enabled) \/ focus_visible
               THEN SetFlag(pc1, entity, "FOCUS_VISIBLE", enabled)
               ELSE pc1
        chain == parent_iter(t, entity)
    IN  IF enabled THEN set_focus_within(pc2, chain, Len(chain), enabled)
        ELSE pc2

\* set_focus_pseudo_classes with FOCUS_VISIBLE following FOCUS on every call.
set_focus_pseudo_classes_always_visible(pc, t, entity, enabled, focus_visible) ==
    LET pc1 == SetFlag(pc, entity, "FOCUS", enabled)
        pc2 == SetFlag(pc1, entity, "FOCUS_VISIBLE", enabled)
        chain == parent_iter(t, entity)
    IN  set_focus_within(pc2, chain, Len(chain), enabled)

\* EventContext::set_focus_pseudo_classes
set_focus_pseudo_classes(pc, t, entity, enabled, focus_visible) ==
    LET pc1 == SetFlag(pc, entity, "FOCUS", enabled)
        pc2 == IF (~enabled) \/ focus_visible
               THEN SetFlag(pc1, entity, "FOCUS_VISIBLE", enabled)
               ELSE pc1
        chain == parent_iter(t, entity)
    IN  set_focus_within(pc2, chain, Len(chain), enabled)

\* focus_pseudo_classes without the call that disables the old focus.
focus_pseudo_classes_new_only(pc, t, old_focus, new_focus, focus_visible) ==
    set_focus_pseudo_classes(pc, t, new_focus, TRUE, focus_visible)

\* The pseudo-class table focus_with_visibility leaves.
focus_pseudo_classes(pc, t, old_focus, new_focus, focus_visible) ==
    set_focus_pseudo_classes(
        set_focus_pseudo_classes(pc, t, old_focus, FALSE, focus_visible),
        t, new_focus, TRUE, focus_visible)

\* focus_events with FocusIn emitted before FocusOut.
focus_events_swapped(q, old_focus, new_focus) ==
    IF new_focus # old_focus
    THEN emit_to_queue(emit_to_queue(q, new_focus, new_focus, << "FocusIn" >>),
                       new_focus, old_focus, << "FocusOut" >>)
    ELSE q

\* focus_events without the test that the focus moves.
focus_events_always(q, old_focus, new_focus) ==
    emit_to_queue(emit_to_queue(q, new_focus, old_focus, << "FocusOut" >>),
                  new_focus, new_focus, << "FocusIn" >>)

\* The queue focus_with_visibility leaves.
focus_events(q, old_focus, new_focus) ==
    IF new_focus # old_focus
    THEN emit_to_queue(emit_to_queue(q, new_focus, old_focus, << "FocusOut" >>),
                       new_focus, new_focus, << "FocusIn" >>)
    ELSE q

\* The entity focus_with_visibility commits as focused.
focus_target(old_focus, new_focus) ==
    IF new_focus # old_focus THEN new_focus ELSE old_focus

\* The body of focus_with_visibility, shared with focus().
FocusBody(focus_visible) ==
    /\ Len(focus_events(event_queue, focused, current)) <= MaxQueue
    /\ pseudo_classes' =
         focus_pseudo_classes(pseudo_classes, tree, focused, current, focus_visible)
    /\ event_queue' = focus_events(event_queue, focused, current)
    /\ focused' = focus_target(focused, current)
    /\ system_flags' = needs_restyle_flags(system_flags)
    /\ UNCHANGED << resolverVars, tree, current, classes, captured, hovered, cursor,
                    cursor_icon_locked, window_size, user_scale_factor, themes,
                    stylesheets, rules, listeners, ignore_default_theme,
                    last_capture >>

\* EventContext::focus_with_visibility
focus_with_visibility(focus_visible) ==
    /\ FocusBody(focus_visible)
    /\ last' = Call("focus_with_visibility", focus_visible)

\* old_focus_visible read from the FOCUS bit instead of FOCUS_VISIBLE.
old_focus_visible_from_focus(pc, f) ==
    /\ f \in DOMAIN pc
    /\ "FOCUS" \in pc[f]

\* The visibility focus() reuses: whether the focused entity has a
\* pseudo-class row that contains FOCUS_VISIBLE.
old_focus_visible(pc, f) ==
    /\ f \in DOMAIN pc
    /\ "FOCUS_VISIBLE" \in pc[f]

\* EventContext::focus
focus ==
    /\ FocusBody(old_focus_visible(pseudo_classes, focused))
    /\ last' = Call("focus", old_focus_visible(pseudo_classes, focused))

\* EventContext::new for the entity the dispatcher hands the next event to.
NewView(e) ==
    /\ e # current
    /\ current' = e
    /\ UNCHANGED << resolverVars, tree, pseudo_classes, classes, focused, captured, hovered,
                    cursor, event_queue, system_flags, cursor_icon_locked, window_size,
                    user_scale_factor, themes, stylesheets, rules, listeners,
                    ignore_default_theme, last, last_capture >>

\* ------------------------------------------------------------------------
\* Capture
\* ------------------------------------------------------------------------
\* capture() that leaves an existing holder in place.
capture_target_if_free(cap, cur) == IF cap = Null THEN cur ELSE cap

\* The holder capture() leaves.
capture_target(cap, cur) == cur

\* release() that clears the slot whoever holds it.
release_target_any(cap, cur) == Null

\* The holder release() leaves.
release_target(cap, cur) == IF cur = cap THEN Null ELSE cap

\* EventContext::capture
capture ==
    /\ captured' = capture_target(captured, current)
    /\ last' = Call("capture", FALSE)
    /\ last_capture' = [ entity |-> current, released |-> FALSE ]
    /\ UNCHANGED << resolverVars, tree, current, pseudo_classes, classes, focused, hovered,
                    cursor, event_queue, system_flags, cursor_icon_locked,
                    window_size, user_scale_factor, themes, stylesheets, rules,
                    listeners, ignore_default_theme >>

\* EventContext::release
release ==
    /\ captured' = release_target(captured, current)
    /\ last' = Call("release", FALSE)
    /\ last_capture' = IF last_capture.entity = current
                       THEN [ last_capture EXCEPT !.released = TRUE ]
                       ELSE last_capture
    /\ UNCHANGED << resolverVars, tree, current, pseudo_classes, classes, focused, hovered,
                    cursor, event_queue, system_flags, cursor_icon_locked,
                    window_size, user_scale_factor, themes, stylesheets, rules,
                    listeners, ignore_default_theme >>

\* ------------------------------------------------------------------------
\* Pseudo-class and class setters
\* ------------------------------------------------------------------------
\* The setters written to ask for a restyle only when the flag changes.
SetPseudoClass_if_changed(op, pseudo_class, flag) ==
    /\ pseudo_classes' = SetFlag(pseudo_classes, current, pseudo_class, flag)
    /\ system_flags' = IF pseudo_classes' # pseudo_classes
                       THEN needs_restyle_flags(system_flags)
                       ELSE system_flags
    /\ last' = Call(op, flag)
    /\ UNCHANGED << resolverVars, tree, current, classes, focused, captured, hovered, cursor,
                    event_queue, cursor_icon_locked, window_size,
                    user_scale_factor, themes, stylesheets, rules, listeners,
                    ignore_default_theme, last_capture >>

\* The shared body of set_active, set_hover, set_checked and set_selected.
SetPseudoClass(op, pseudo_class, flag) ==
    /\ pseudo_classes' = SetFlag(pseudo_classes, current, pseudo_class, flag)
    /\ system_flags' = needs_restyle_flags(system_flags)
    /\ last' = Call(op, flag)
    /\ UNCHANGED << resolverVars, tree, current, classes, focused, captured, hovered, cursor,
                    event_queue, cursor_icon_locked, window_size,
                    user_scale_factor, themes, stylesheets, rules, listeners,
                    ignore_default_theme, last_capture >>

\* EventContext::set_active
set_active(flag) == SetPseudoClass("set_active", "ACTIVE", flag)

\* EventContext::set_hover
set_hover(flag) == SetPseudoClass("set_hover", "HOVER", flag)

\* EventContext::set_checked
set_checked(flag) == SetPseudoClass("set_checked", "CHECKED", flag)

\* EventContext::set_selected
set_selected(flag) == SetPseudoClass("set_selected", "SELECTED", flag)

\* The class table toggle_class leaves.
toggle_class_list(cl, cur, class_name, applied) ==
    IF cur \in DOMAIN cl
    THEN [cl EXCEPT ![cur] = IF applied THEN @ \cup {class_name}
                                        ELSE @ \ {class_name}]
    ELSE IF applied
         THEN [e \in DOMAIN cl \cup {cur} |->
                 IF e = cur THEN {class_name} ELSE cl[e]]
         ELSE cl

\* EventContext::toggle_class
toggle_class(class_name, applied) ==
    /\ classes' = toggle_class_list(classes, current, class_name, applied)
    /\ system_flags' = needs_restyle_flags(system_flags)
    /\ last' = Call("toggle_class", applied)
    /\ UNCHANGED << resolverVars, tree, current, pseudo_classes, focused, captured, hovered,
                    cursor, event_queue, cursor_icon_locked, window_size,
                    user_scale_factor, themes, stylesheets, rules, listeners,
                    ignore_default_theme, last_capture >>

\* ------------------------------------------------------------------------
\* Cursor lock, listeners, theme mode
\* ------------------------------------------------------------------------
\* EventContext::lock_cursor_icon
lock_cursor_icon ==
    /\ cursor_icon_locked' = TRUE
    /\ last' = Call("lock_cursor_icon", FALSE)
    /\ UNCHANGED << resolverVars, tree, current, pseudo_classes, classes, focused, captured,
                    hovered, cursor, event_queue, system_flags, window_size,
                    user_scale_factor, themes, stylesheets, rules, listeners,
                    ignore_default_theme, last_capture >>

\* style.cursor.get(hovered).cloned().unwrap_or_default()
hovered_cursor(c, h) == IF h \in DOMAIN c THEN c[h] ELSE "Default"

\* EventContext::unlock_cursor_icon
unlock_cursor_icon ==
    /\ Len(event_queue) < MaxQueue
    /\ cursor_icon_locked' = FALSE
    /\ event_queue' = emit_queue(event_queue, current,
                                 << "SetCursor", hovered_cursor(cursor, hovered) >>)
    /\ last' = Call("unlock_cursor_icon", FALSE)
    /\ UNCHANGED << resolverVars, tree, current, pseudo_classes, classes, focused, captured,
                    hovered, cursor, system_flags, window_size,
                    user_scale_factor, themes, stylesheets, rules, listeners,
                    ignore_default_theme, last_capture >>

\* EventContext::add_listener
add_listener ==
    /\ listeners' = listeners \cup {current}
    /\ last' = Call("add_listener", FALSE)
    /\ UNCHANGED << resolverVars, tree, current, pseudo_classes, classes, focused, captured,
                    hovered, cursor, event_queue, system_flags,
                    cursor_icon_locked, window_size, user_scale_factor, themes,
                    stylesheets, rules, ignore_default_theme, last_capture >>

\* EventContext::set_theme_mode; writing themes[1] of a list shorter than
\* two panics.
set_theme_mode(theme) ==
    /\ themes' = IF ignore_default_theme \/ Len(themes) < 2 THEN themes
                 ELSE [themes EXCEPT ![2] = theme]
    /\ last' = [ Call("set_theme_mode", FALSE) EXCEPT
                   !.result = IF (~ignore_default_theme) /\ Len(themes) < 2
                              THEN "Panic" ELSE "Ok" ]
    /\ UNCHANGED << resolverVars, tree, current, pseudo_classes, classes, focused, captured,
                    hovered, cursor, event_queue, system_flags,
                    cursor_icon_locked, window_size, user_scale_factor,
                    stylesheets, rules, listeners, ignore_default_theme,
                    last_capture >>

\* ------------------------------------------------------------------------
\* Invalidation requests, window geometry, style reload
\* ------------------------------------------------------------------------
\* EventContext::needs_redraw
needs_redraw ==
    /\ system_flags' = needs_redraw_flags(system_flags)
    /\ last' = Call("needs_redraw", FALSE)
    /\ UNCHANGED << resolverVars, tree, current, pseudo_classes, classes, focused, captured,
                    hovered, cursor, event_queue, cursor_icon_locked,
                    window_size, user_scale_factor, themes, stylesheets, rules,
                    listeners, ignore_default_theme, last_capture >>

\* needs_relayout without its explicit redraw request.
relayout_flags_no_redraw(f) == needs_relayout_flags(f)

\* The flags needs_relayout leaves: style.needs_relayout() then
\* style.needs_redraw().
relayout_flags(f) == needs_redraw_flags(needs_relayout_flags(f))

\* EventContext::needs_relayout
needs_relayout ==
    /\ system_flags' = relayout_flags(system_flags)
    /\ last' = Call("needs_relayout", FALSE)
    /\ UNCHANGED << resolverVars, tree, current, pseudo_classes, classes, focused, captured,
                    hovered, cursor, event_queue, cursor_icon_locked,
                    window_size, user_scale_factor, themes, stylesheets, rules,
                    listeners, ignore_default_theme, last_capture >>

\* set_window_size that requests the passes set_user_scale_factor requests.
window_size_flags_relayout(f) == (f \cup {"RELAYOUT"}) \cup {"REFLOW"}

\* The flags set_window_size leaves: it touches none.
window_size_flags(f) == f

\* EventContext::set_window_size
set_window_size(new_size) ==
    /\ window_size' = new_size
    /\ system_flags' = window_size_flags(system_flags)
    /\ last' = Call("set_window_size", FALSE)
    /\ UNCHANGED << resolverVars, tree, current, pseudo_classes, classes, focused, captured,
                    hovered, cursor, event_queue, cursor_icon_locked,
                    user_scale_factor, themes, stylesheets, rules, listeners,
                    ignore_default_theme, last_capture >>

\* set_user_scale_factor written with the flag word replaced.
scale_factor_flags_overwrite(f) == {"RELAYOUT", "REFLOW"}

\* set_user_scale_factor that also asks for a restyle.
scale_factor_flags_restyle(f) == f \cup {"RELAYOUT", "REFLOW", "RESTYLE"}

\* The flags set_user_scale_factor leaves: system_flags.set(RELAYOUT, true)
\* and system_flags.set(REFLOW, true).
scale_factor_flags(f) == (f \cup {"RELAYOUT"}) \cup {"REFLOW"}

\* EventContext::set_user_scale_factor
set_user_scale_factor(new_factor) ==
    /\ user_scale_factor' = new_factor
    /\ system_flags' = scale_factor_flags(system_flags)
    /\ last' = Call("set_user_scale_factor", FALSE)
    /\ UNCHANGED << resolverVars, tree, current, pseudo_classes, classes, focused, captured,
                    hovered, cursor, event_queue, cursor_icon_locked,
                    window_size, themes, stylesheets, rules, listeners,
                    ignore_default_theme, last_capture >>

\* The stylesheet files read before the first unreadable one (all of them
\* when every file is readable).
RECURSIVE read_stylesheets(_, _)
read_stylesheets(files, unreadable) ==
    IF files = << >> THEN << >>
    ELSE IF Head(files) \in unreadable THEN << >>
    ELSE << Head(files) >> \o read_stylesheets(Tail(files), unreadable)

\* The stylesheet loop written to skip an unreadable file and go on.
RECURSIVE read_attempts_continue(_, _)
read_attempts_continue(files, unreadable) ==
    IF files = << >> THEN << >>
    ELSE << Head(files) >> \o read_attempts_continue(Tail(files), unreadable)

\* The files the stylesheet loop passes to std::fs::read_to_string, in
\* order: the `?` leaves the loop at the first file that cannot be read.
RECURSIVE read_attempts(_, _)
read_attempts(files, unreadable) ==
    IF files = << >> THEN << >>
    ELSE IF Head(files) \in unreadable THEN << Head(files) >>
    ELSE << Head(files) >> \o read_attempts(Tail(files), unreadable)

\* reload_styles without its redraw request.
reload_flags_no_redraw(f) == needs_relayout_flags(needs_restyle_flags(f))

\* The flags a completed reload leaves: needs_restyle, needs_relayout,
\* needs_redraw.
reload_flags(f) ==
    needs_redraw_flags(needs_relayout_flags(needs_restyle_flags(f)))

\* reload_rules that leaves the installed rules in place when a read fails.
reload_rules_all_or_nothing(r, th, read, nothing, failed) ==
    IF nothing \/ failed THEN r ELSE th \o read

\* The installed rules reload_styles leaves: untouched by the early return,
\* removed by remove_rules and clear_style_rules before the first file is
\* read, and parsed again from the themes and the files only when every file
\* was read.
reload_rules(r, th, read, nothing, failed) ==
    IF nothing THEN r
    ELSE IF failed THEN << >>
    ELSE th \o read

\* EventContext::reload_styles, with the set of files std::fs cannot read.
reload_styles(unreadable) ==
    LET nothing == themes = << >> /\ stylesheets = << >>
        read == read_stylesheets(stylesheets, unreadable)
        attempts == read_attempts(stylesheets, unreadable)
        failed == Len(read) < Len(stylesheets)
    IN  /\ rules' = reload_rules(rules, themes, read, nothing, failed)
        /\ system_flags' =
             IF nothing \/ failed THEN system_flags
             ELSE reload_flags(system_flags)
        /\ last' = IF nothing THEN Call("reload_styles", FALSE)
                   ELSE [ Call("reload_styles", FALSE) EXCEPT
                            !.result = IF failed THEN "Err" ELSE "Ok",
                            !.unreadable = unreadable,
                            !.reads = attempts,
                            !.error = IF failed THEN attempts[Len(attempts)]
                                      ELSE "",
                            !.parsed = ~failed ]
        /\ UNCHANGED << resolverVars, tree, current, pseudo_classes, classes, focused,
                        captured, hovered, cursor, event_queue,
                        cursor_icon_locked, window_size, user_scale_factor,
                        themes, stylesheets, listeners, ignore_default_theme,
                        last_capture >>

\* ------------------------------------------------------------------------
\* Event emission
\* ------------------------------------------------------------------------
\* EmitContext::emit
emit(message) ==
    /\ Len(event_queue) < MaxQueue
    /\ event_queue' = emit_queue(event_queue, current, message)
    /\ last' = Call("emit", FALSE)
    /\ UNCHANGED << resolverVars, tree, current, pseudo_classes, classes, focused, captured,
                    hovered, cursor, system_flags, cursor_icon_locked,
                    window_size, user_scale_factor, themes, stylesheets, rules,
                    listeners, ignore_default_theme, last_capture >>

\* EmitContext::emit_to
emit_to(target, message) ==
    /\ Len(event_queue) < MaxQueue
    /\ event_queue' = emit_to_queue(event_queue, current, target, message)
    /\ last' = Call("emit_to", FALSE)
    /\ UNCHANGED << resolverVars, tree, current, pseudo_classes, classes, focused, captured,
                    hovered, cursor, system_flags, cursor_icon_locked,
                    window_size, user_scale_factor, themes, stylesheets, rules,
                    listeners, ignore_default_theme, last_capture >>

\* EmitContext::emit_custom
emit_custom(event) ==
    /\ Len(event_queue) < MaxQueue
    /\ event_queue' = Append(event_queue, event)
    /\ last' = Call("emit_custom", FALSE)
    /\ UNCHANGED << resolverVars, tree, current, pseudo_classes, classes, focused, captured,
                    hovered, cursor, system_flags, cursor_icon_locked,
                    window_size, user_scale_factor, themes, stylesheets, rules,
                    listeners, ignore_default_theme, last_capture >>

\* ------------------------------------------------------------------------
\* Numbers, bounding boxes and property tables
\* ------------------------------------------------------------------------
\* f32 and f64 values are kept in hundredths: F stands for 1.0.
F == 100
Px(n) == n * F
\* The product of two such values.
FxMul(a, b) == (a * b) \div F
Min(a, b) == IF a <= b THEN a ELSE b

\* BoundingBox
BoundingBox(x, y, w, h) == [ x |-> x, y |-> y, w |-> w, h |-> h ]
left(b) == b.x
right(b) == b.x + b.w
top(b) == b.y
bottom(b) == b.y + b.h
\* BoundingBox::from_min_max
from_min_max(l, t, r, b) == BoundingBox(l, t, r - l, b - t)
\* BoundingBox::shrink_sides
shrink_sides(b, l, t, r, bt) == BoundingBox(b.x + l, b.y + t, b.w - l - r, b.h - t - bt)
\* BoundingBox::center
center(b) == << b.x + b.w \div 2, b.y + b.h \div 2 >>

\* A sparse per-entity table: empty, or holding one row.
EmptyTable == [e \in {} |-> 0]
Row(e, v) == [x \in {e} |-> v]
\* table.get(entity)...unwrap_or(default)
Get(table, e, default) == IF e \in DOMAIN table THEN table[e] ELSE default

\* Overflow::default()
OverflowDefault == "Visible"

\* The style tables with no row and a dpi factor of 1.0.
NoProps ==
    [ dpi_factor |-> F,
      overflowx |-> EmptyTable, overflowy |-> EmptyTable,
      clip_path |-> EmptyTable,
      transform_origin |-> EmptyTable, translate |-> EmptyTable,
      rotate |-> EmptyTable, scale |-> EmptyTable,
      transform |-> EmptyTable, transform_animation |-> EmptyTable,
      child_left |-> EmptyTable, child_right |-> EmptyTable,
      child_top |-> EmptyTable, child_bottom |-> EmptyTable,
      border_width |-> EmptyTable, outline_width |-> EmptyTable,
      outline_offset |-> EmptyTable,
      border_top_left_radius |-> EmptyTable,
      border_top_right_radius |-> EmptyTable,
      border_bottom_left_radius |-> EmptyTable,
      border_bottom_right_radius |-> EmptyTable,
      font_color |-> EmptyTable, background_color |-> EmptyTable,
      border_color |-> EmptyTable, outline_color |-> EmptyTable,
      selection_color |-> EmptyTable, caret_color |-> EmptyTable,
      box_shadow |-> EmptyTable, background_gradient |-> EmptyTable ]

\* The cache with every entity at the same box and fully opaque.
DefaultCache ==
    [ bounds |-> [e \in Entities |-> BoundingBox(0, 0, Px(40), Px(20))],
      opacity |-> [e \in Entities |-> F] ]

NoOut == [ op |-> "none" ]

\* The resolver state of the specifications that call no resolver.
\* A canvas with no image and no command run.
NoCanvas == [ images |-> 0, commands |-> << >> ]
\* No model stored and no view built for any entity.
NoData == [ models |-> [e \in Entities |-> {}], views |-> [e \in Entities |-> "none"] ]
\* No event proxy installed, no worker spawned, nothing sent.
NoDetached == [ event_proxy |-> FALSE, workers |-> << >>, sent |-> << >> ]

\* The Draw View and the detached work of the specifications that use neither.
InitDevice ==
    /\ canvas = NoCanvas
    /\ draw_cache = [ shadow_image |-> EmptyTable ]
    /\ data = NoData
    /\ detached = NoDetached

InitResolver ==
    /\ props = NoProps
    /\ cache = DefaultCache
    /\ out = NoOut
    /\ InitDevice

\* LengthOrPercentage values: a pixel length, another length unit, or a
\* percentage kept as a fraction.
LengthPx(n) == [ kind |-> "Px", v |-> n ]
LengthOther(n) == [ kind |-> "Em", v |-> n ]
Percentage(n) == [ kind |-> "Percentage", v |-> n ]

\* LengthOrPercentage::to_pixels
to_pixels(length, min_bounds) ==
    IF length.kind = "Px" THEN length.v
    ELSE IF length.kind = "Percentage" THEN FxMul(length.v, min_bounds)
    ELSE 0

\* Style::logical_to_physical, as the Event View calls it.
style_logical_to_physical(p, logical) == FxMul(logical, p.dpi_factor)

\* ------------------------------------------------------------------------
\* Clip region of the Event View
\* ------------------------------------------------------------------------
\* ClipPath values.
ClipAuto == [ kind |-> "Auto", rect |-> << >> ]
ClipShape(t, r, b, l) == [ kind |-> "Shape", rect |-> << t, r, b, l >> ]

\* The clip_bounds of clip_region: the bounds, shrunk by the sides of an
\* explicit shape.  to_pixels is called with the scale factor as a second
\* argument, which the to_pixels of length_or_percentage.rs does not take.
clip_bounds(p, c, cur) ==
    LET bounds == c.bounds[cur]
        pix(length, extent) ==
            style_logical_to_physical(p, to_pixels(length, extent))
    IN  IF cur \in DOMAIN p.clip_path
        THEN IF p.clip_path[cur].kind = "Auto" THEN bounds
             ELSE LET rect == p.clip_path[cur].rect
                  IN  shrink_sides(bounds,
                                   pix(rect[4], bounds.w), pix(rect[1], bounds.h),
                                   pix(rect[2], bounds.w), pix(rect[3], bounds.h))
        ELSE bounds

\* clip_region with the last case intersected with the root's bounds.
clip_region_value_intersect(p, c, t, cur) ==
    LET overflowx == Get(p.overflowx, cur, OverflowDefault)
        overflowy == Get(p.overflowy, cur, OverflowDefault)
        root_bounds == c.bounds[Root]
        clip == clip_bounds(p, c, cur)
    IN  IF overflowx = "Visible" /\ overflowy = "Visible" THEN root_bounds
        ELSE IF overflowx = "Hidden" /\ overflowy = "Visible"
        THEN from_min_max(left(clip), top(root_bounds),
                          right(clip), bottom(root_bounds))
        ELSE IF overflowx = "Visible" /\ overflowy = "Hidden"
        THEN from_min_max(left(root_bounds), top(clip),
                          right(root_bounds), bottom(clip))
        ELSE from_min_max(0 - Min(0 - left(clip), 0 - left(root_bounds)),
                          0 - Min(0 - top(clip), 0 - top(root_bounds)),
                          Min(right(clip), right(root_bounds)),
                          Min(bottom(clip), bottom(root_bounds)))

\* clip_region with the two mixed cases exchanged.
clip_region_value_swapped(p, c, t, cur) ==
    LET overflowx == Get(p.overflowx, cur, OverflowDefault)
        overflowy == Get(p.overflowy, cur, OverflowDefault)
        root_bounds == c.bounds[Root]
        clip == clip_bounds(p, c, cur)
    IN  IF overflowx = "Visible" /\ overflowy = "Visible" THEN root_bounds
        ELSE IF overflowx = "Visible" /\ overflowy = "Hidden"
        THEN from_min_max(left(clip), top(root_bounds),
                          right(clip), bottom(root_bounds))
        ELSE IF overflowx = "Hidden" /\ overflowy = "Visible"
        THEN from_min_max(left(root_bounds), top(clip),
                          right(root_bounds), bottom(clip))
        ELSE clip

\* The box EventContext::clip_region returns.
clip_region_value(p, c, t, cur) ==
    LET overflowx == Get(p.overflowx, cur, OverflowDefault)
        overflowy == Get(p.overflowy, cur, OverflowDefault)
        root_bounds == c.bounds[Root]
        clip == clip_bounds(p, c, cur)
    IN  IF overflowx = "Visible" /\ overflowy = "Visible" THEN root_bounds
        ELSE IF overflowx = "Hidden" /\ overflowy = "Visible"
        THEN from_min_max(left(clip), top(root_bounds),
                          right(clip), bottom(root_bounds))
        ELSE IF overflowx = "Visible" /\ overflowy = "Hidden"
        THEN from_min_max(left(root_bounds), top(clip),
                          right(root_bounds), bottom(clip))
        ELSE clip

\* The Event View state a resolver call leaves alone.
eventVars == << tree, current, pseudo_classes, classes, focused, captured,
                hovered, cursor, event_queue, system_flags, cursor_icon_locked,
                window_size, user_scale_factor, themes, stylesheets, rules,
                listeners, ignore_default_theme, last_capture >>

\* EventContext::clip_region
clip_region ==
    /\ out' = [ op |-> "clip_region",
                value |-> clip_region_value(props, cache, tree, current) ]
    /\ last' = Call("clip_region", FALSE)
    /\ UNCHANGED << eventVars, props, cache, deviceVars >>

\* ------------------------------------------------------------------------
\* Transform of the Event View
\* ------------------------------------------------------------------------
\* Transform2D: the affine map x' = a x + c y + e, y' = b x + d y + f, kept
\* as << a, b, c, d, e, f >>.
identity == << F, 0, 0, F, 0, 0 >>
new_translation(x, y) == << F, 0, 0, F, x, y >>
\* Transform2D::multiply: this map followed by the other.
multiply(s, o) ==
    << FxMul(s[1], o[1]) + FxMul(s[2], o[3]),
       FxMul(s[1], o[2]) + FxMul(s[2], o[4]),
       FxMul(s[3], o[1]) + FxMul(s[4], o[3]),
       FxMul(s[3], o[2]) + FxMul(s[4], o[4]),
       FxMul(s[5], o[1]) + FxMul(s[6], o[3]) + o[5],
       FxMul(s[5], o[2]) + FxMul(s[6], o[4]) + o[6] >>
\* Transform2D::premultiply: the other map followed by this one.
premultiply(s, o) == multiply(o, s)
\* Transform2D::inverse; a map without inverse becomes the identity.
inverse(m) ==
    LET det == m[1] * m[4] - m[3] * m[2]
    IN  IF det = 0 THEN identity
        ELSE << (m[4] * F * F) \div det, (0 - m[2] * F * F) \div det,
                (0 - m[3] * F * F) \div det, (m[1] * F * F) \div det,
                ((m[3] * m[6] - m[4] * m[5]) * F) \div det,
                ((m[2] * m[5] - m[1] * m[6]) * F) \div det >>
\* Transform2D::interpolate: the linear blend of the two maps at t.
interpolate(a, b, t) == [i \in 1..6 |-> a[i] + FxMul(b[i] - a[i], t)]

\* A length resolved against an extent and the scale factor.
resolve(length, extent, scale_factor) ==
    IF length.kind = "Px" THEN FxMul(length.v, scale_factor)
    ELSE to_pixels(length, extent)

\* The values of the transform properties: a pair of lengths, an angle in
\* quarter turns, a pair of factors.
Translate(x, y) == [ kind |-> "Translate", x |-> x, y |-> y ]
Rotate(quarters) == [ kind |-> "Rotate", x |-> quarters, y |-> 0 ]
Scale(sx, sy) == [ kind |-> "Scale", x |-> sx, y |-> sy ]

\* The cosine and the sine of a number of quarter turns.
Cos(q) == IF q % 4 = 0 THEN F ELSE IF q % 4 = 2 THEN 0 - F ELSE 0
Sin(q) == IF q % 4 = 1 THEN F ELSE IF q % 4 = 3 THEN 0 - F ELSE 0

\* into_transform of one styled value.
into_transform(v, bounds, scale_factor) ==
    IF v.kind = "Translate"
    THEN new_translation(resolve(v.x, bounds.w, scale_factor),
                         resolve(v.y, bounds.h, scale_factor))
    ELSE IF v.kind = "Rotate"
    THEN << Cos(v.x), Sin(v.x), 0 - Sin(v.x), Cos(v.x), 0, 0 >>
    ELSE << v.x, 0, 0, v.y, 0, 0 >>

\* into_transform of a list of transform functions.
RECURSIVE list_into_transform(_, _, _)
list_into_transform(list, bounds, scale_factor) ==
    IF list = << >> THEN identity
    ELSE premultiply(list_into_transform(Tail(list), bounds, scale_factor),
                     into_transform(Head(list), bounds, scale_factor))

\* AnimatableSet::get finds a value for an entity that has a stored value or
\* an active animation.
transform_get_some(p, cur) ==
    cur \in DOMAIN p.transform \/ cur \in DOMAIN p.transform_animation

\* The origin without the corner of the bounds.
explicit_origin_offset_only(bounds, offset) == offset

\* The origin of a styled transform-origin: the translation to the corner of
\* the bounds, premultiplied by the offset.
explicit_origin(bounds, offset) ==
    premultiply(new_translation(left(bounds), top(bounds)), offset)

\* The origin transform.
origin_transform(p, c, cur) ==
    LET bounds == c.bounds[cur]
    IN  IF cur \in DOMAIN p.transform_origin
        THEN explicit_origin(bounds,
                 into_transform(p.transform_origin[cur], bounds, p.dpi_factor))
        ELSE new_translation(center(bounds)[1], center(bounds)[2])

\* The transform functions step with the static value applied even while an
\* animation is active.
transform_functions_static(p, c, cur) ==
    IF cur \in DOMAIN p.transform
    THEN << list_into_transform(p.transform[cur], c.bounds[cur], p.dpi_factor) >>
    ELSE << >>

\* The maps that the transform functions step premultiplies: none, the
\* interpolation between the first and the last keyframe of the active
\* animation, or the static list.
transform_functions(p, c, cur) ==
    LET bounds == c.bounds[cur]
        scale_factor == p.dpi_factor
    IN  IF transform_get_some(p, cur)
        THEN IF cur \in DOMAIN p.transform_animation
             THEN LET animation_state == p.transform_animation[cur]
                      keyframes == animation_state.keyframes
                  IN  IF keyframes # << >>
                      THEN << interpolate(
                                list_into_transform(keyframes[1][2], bounds, scale_factor),
                                list_into_transform(keyframes[Len(keyframes)][2],
                                                    bounds, scale_factor),
                                animation_state.t) >>
                      ELSE << >>
             ELSE << list_into_transform(p.transform[cur], bounds, scale_factor) >>
        ELSE << >>

\* The maps of the translate, rotate and scale properties that are styled.
property_transforms(p, c, cur) ==
    LET bounds == c.bounds[cur]
        one(table) == IF cur \in DOMAIN table
                      THEN << into_transform(table[cur], bounds, p.dpi_factor) >>
                      ELSE << >>
    IN  one(p.translate) \o one(p.rotate) \o one(p.scale)

\* A map premultiplied by each map of a list in turn.
RECURSIVE premultiply_all(_, _)
premultiply_all(t, list) ==
    IF list = << >> THEN t
    ELSE premultiply_all(premultiply(t, Head(list)), Tail(list))

\* The map EventContext::transform returns.
transform_value(p, c, cur) ==
    LET origin == origin_transform(p, c, cur)
    IN  premultiply(
            premultiply_all(premultiply(identity, origin),
                            property_transforms(p, c, cur)
                                \o transform_functions(p, c, cur)),
            inverse(origin))

\* EventContext::transform
transform ==
    /\ out' = [ op |-> "transform",
                value |-> transform_value(props, cache, current),
                functions |-> transform_functions(props, cache, current) ]
    /\ last' = Call("transform", FALSE)
    /\ UNCHANGED << eventVars, props, cache, deviceVars >>

\* ------------------------------------------------------------------------
\* Property resolution of the Draw View
\* ------------------------------------------------------------------------
\* Units values.
Pixels(v) == [ kind |-> "Pixels", v |-> v ]
UnitsPercentage(v) == [ kind |-> "Percentage", v |-> v ]
Stretch(v) == [ kind |-> "Stretch", v |-> v ]
Auto == [ kind |-> "Auto", v |-> 0 ]
\* Units::default()
UnitsDefault == Auto

\* f32::round: the nearest whole number, halves away from zero.
round(v) ==
    IF v >= 0 THEN ((v + F \div 2) \div F) * F
    ELSE 0 - (((0 - v + F \div 2) \div F) * F)

\* DrawContext::logical_to_physical
logical_to_physical(p, logical) == FxMul(logical, p.dpi_factor)

\* style_getter_units with the scaled pixel value rounded.
style_getter_units_rounded(p, table, cur) ==
    IF cur \in DOMAIN table /\ table[cur].kind = "Pixels"
    THEN Pixels(round(logical_to_physical(p, table[cur].v)))
    ELSE Get(table, cur, UnitsDefault)

\* The body of the accessors that style_getter_units! generates.
style_getter_units(p, table, cur) ==
    IF cur \in DOMAIN table /\ table[cur].kind = "Pixels"
    THEN Pixels(logical_to_physical(p, table[cur].v))
    ELSE Get(table, cur, UnitsDefault)

\* A call of a Draw View accessor: it returns a value and changes nothing.
DrawGetter(name, value) ==
    /\ out' = [ op |-> name, value |-> value ]
    /\ last' = Call(name, FALSE)
    /\ UNCHANGED << eventVars, props, cache, deviceVars >>

\* DrawContext::child_left
child_left == DrawGetter("child_left", style_getter_units(props, props.child_left, current))
\* DrawContext::child_right
child_right == DrawGetter("child_right", style_getter_units(props, props.child_right, current))
\* DrawContext::child_top
child_top == DrawGetter("child_top", style_getter_units(props, props.child_top, current))
\* DrawContext::child_bottom
child_bottom == DrawGetter("child_bottom", style_getter_units(props, props.child_bottom, current))


\* get_length_property resolving a percentage against the width of the bounds.
get_length_property_width(p, c, table, cur) ==
    IF cur \in DOMAIN table
    THEN round(logical_to_physical(p, to_pixels(table[cur], c.bounds[cur].w)))
    ELSE 0

\* The body of the accessors that get_length_property! generates.
get_length_property(p, c, table, cur) ==
    IF cur \in DOMAIN table
    THEN LET bounds == c.bounds[cur]
             px == to_pixels(table[cur], Min(bounds.w, bounds.h))
         IN  round(logical_to_physical(p, px))
    ELSE 0

\* DrawContext::border_width
border_width ==
    DrawGetter("border_width",
               get_length_property(props, cache, props.border_width, current))
\* DrawContext::outline_width
outline_width ==
    DrawGetter("outline_width",
               get_length_property(props, cache, props.outline_width, current))
\* DrawContext::outline_offset
outline_offset ==
    DrawGetter("outline_offset",
               get_length_property(props, cache, props.outline_offset, current))
\* DrawContext::border_top_left_radius
border_top_left_radius ==
    DrawGetter("border_top_left_radius",
               get_length_property(props, cache, props.border_top_left_radius, current))
\* DrawContext::border_top_right_radius
border_top_right_radius ==
    DrawGetter("border_top_right_radius",
               get_length_property(props, cache, props.border_top_right_radius, current))
\* DrawContext::border_bottom_left_radius
border_bottom_left_radius ==
    DrawGetter("border_bottom_left_radius",
               get_length_property(props, cache, props.border_bottom_left_radius, current))
\* DrawContext::border_bottom_right_radius
border_bottom_right_radius ==
    DrawGetter("border_bottom_right_radius",
               get_length_property(props, cache, props.border_bottom_right_radius, current))


\* Color::rgba
rgba(r, g, b, a) == [ r |-> r, g |-> g, b |-> b, a |-> a ]
\* (opacity * a as f32) as u8: the product without its fraction, kept in 0..255.
alpha_u8(opacity, a) ==
    LET v == (opacity * a) \div F
    IN  IF v < 0 THEN 0 ELSE IF v > 255 THEN 255 ELSE v

\* get_color_property returning the stored color whatever the opacity.
get_color_property_opaque(c, table, cur) ==
    IF cur \in DOMAIN table THEN table[cur] ELSE rgba(0, 0, 0, 0)

\* The body of the accessors that get_color_property! generates.
get_color_property(c, table, cur) ==
    LET opacity == c.opacity[cur]
    IN  IF cur \in DOMAIN table
        THEN LET col == table[cur]
             IN  rgba(col.r, col.g, col.b, alpha_u8(opacity, col.a))
        ELSE rgba(0, 0, 0, 0)

\* DrawContext::background_color
background_color ==
    DrawGetter("background_color",
               get_color_property(cache, props.background_color, current))
\* DrawContext::border_color
border_color ==
    DrawGetter("border_color",
               get_color_property(cache, props.border_color, current))
\* DrawContext::outline_color
outline_color ==
    DrawGetter("outline_color",
               get_color_property(cache, props.outline_color, current))
\* DrawContext::selection_color
selection_color ==
    DrawGetter("selection_color",
               get_color_property(cache, props.selection_color, current))
\* DrawContext::caret_color
caret_color ==
    DrawGetter("caret_color",
               get_color_property(cache, props.caret_color, current))
\* DrawContext::font_color
font_color ==
    DrawGetter("font_color",
               LET opacity == cache.opacity[current]
               IN  IF current \in DOMAIN props.font_color
                   THEN LET col == props.font_color[current]
                        IN  rgba(col.r, col.g, col.b, alpha_u8(opacity, col.a))
                   ELSE rgba(0, 0, 0, 255))


\* ------------------------------------------------------------------------
\* Shadows of the Draw View
\* ------------------------------------------------------------------------
\* f32::ceil and the cast of a positive f32 to usize.
ceil(v) == ((v + F - 1) \div F) * F
as_usize(v) == IF v < 0 THEN 0 ELSE (v \div F) * F

\* BoxShadow: the offsets in pixels, the optional blur radius in pixels.
BoxShadow(x, y, blur, color) ==
    [ x_offset |-> x, y_offset |-> y, blur_radius |-> blur, color |-> color ]
\* box_shadow.blur_radius...unwrap_or(0.0)
blur_radius_of(shadow) ==
    IF shadow.blur_radius = << >> THEN 0 ELSE shadow.blur_radius[1]
\* d: the padding of the offscreen images, five times sigma rounded up.
padding(shadow) == ceil(FxMul(blur_radius_of(shadow) \div 2, 5 * F))

\* One command run on the canvas for the shadow of the index.
Command(cmd, i, image, w, h, x, y) ==
    [ cmd |-> cmd, shadow |-> i, image |-> image, w |-> w, h |-> h,
      x |-> x, y |-> y ]

\* The commands of one iteration of the loop of draw_shadows: two images are
\* created, the path is filled into the first, the first is blurred into the
\* second for a positive blur radius, the result is filled onto the screen.
shadow_commands(p, bounds, i, shadow, images) ==
    LET d == padding(shadow)
        w == as_usize(bounds.w + d)
        h == as_usize(bounds.h + d)
        source == images + 1
        target == images + 2
        x_offset == FxMul(shadow.x_offset, p.dpi_factor)
        y_offset == FxMul(shadow.y_offset, p.dpi_factor)
        target_image == IF blur_radius_of(shadow) > 0 THEN target ELSE source
    IN  << Command("create_image_empty", i, source, w, h, 0, 0),
           Command("create_image_empty", i, target, w, h, 0, 0),
           Command("render", i, source, w, h, 0, 0) >>
        \o (IF blur_radius_of(shadow) > 0
            THEN << Command("filter_image", i, target, w, h, 0, 0) >>
            ELSE << >>)
        \o << Command("composite", i, target_image, w, h, x_offset, y_offset) >>

\* The shadows taken in declaration order.
shadow_order_forward(n) == [k \in 1..n |-> k]

\* box_shadows.iter().rev(): the indices of the shadows, last declared first.
shadow_order(n) == [k \in 1..n |-> n + 1 - k]

\* The commands of the loop over the indices, from a number of images.
RECURSIVE shadow_loop(_, _, _, _, _)
shadow_loop(p, bounds, shadows, order, images) ==
    IF order = << >> THEN << >>
    ELSE shadow_commands(p, bounds, Head(order), shadows[Head(order)], images)
         \o shadow_loop(p, bounds, shadows, Tail(order), images + 2)

\* DrawContext::draw_shadows
draw_shadows ==
    LET commands ==
            IF current \in DOMAIN props.box_shadow
            THEN shadow_loop(props, cache.bounds[current], props.box_shadow[current],
                             shadow_order(Len(props.box_shadow[current])),
                             canvas.images)
            ELSE << >>
        created == { k \in DOMAIN commands : commands[k].cmd = "create_image_empty" }
    IN  /\ canvas' = [ images |-> canvas.images + Cardinality(created),
                       commands |-> canvas.commands \o commands ]
        /\ out' = [ op |-> "draw_shadows", commands |-> commands,
                    images |-> canvas.images ]
        /\ last' = Call("draw_shadows", FALSE)
        /\ UNCHANGED << eventVars, props, cache, draw_cache, data, detached >>


\* ------------------------------------------------------------------------
\* Gradient of the Draw View
\* ------------------------------------------------------------------------
\* LineDirection values.
Horizontal(h) == [ kind |-> "Horizontal", horizontal |-> h, vertical |-> "" ]
Vertical(v) == [ kind |-> "Vertical", horizontal |-> "", vertical |-> v ]
Corner(h, v) == [ kind |-> "Corner", horizontal |-> h, vertical |-> v ]
Angle == [ kind |-> "Angle", horizontal |-> "", vertical |-> "" ]
\* Gradient values: a linear gradient, or a gradient of another kind.
Linear(direction, stops) ==
    [ kind |-> "Linear", direction |-> direction, stops |-> stops ]
Radial == [ kind |-> "Radial", direction |-> Angle, stops |-> << >> ]
\* A color stop with an optional position.
ColorStop(position, color) == [ position |-> position, color |-> color ]

\* Tree::get_layout_parent: the parent of the entity, none for the root.
get_layout_parent(t, e) == t[e]

\* The quotient of two f32 values; a zero divided by zero is not a number.
FxDiv(a, b) == IF b = 0 THEN "NaN" ELSE (a * F) \div b

\* The end point and the parent length with every corner running across
\* the bounds.
gradient_end_any_corner(direction, bounds, parent_width, parent_height) ==
    IF direction.kind = "Horizontal" THEN << bounds.w, 0, parent_width >>
    ELSE IF direction.kind = "Vertical" THEN << 0, bounds.h, parent_height >>
    ELSE IF direction.kind = "Corner" THEN << bounds.w, bounds.h, parent_width >>
    ELSE << 0, 0, 0 >>

\* The match on linear_gradient.direction: end_x, end_y and parent_length.
gradient_end(direction, bounds, parent_width, parent_height) ==
    IF direction.kind = "Horizontal" THEN << bounds.w, 0, parent_width >>
    ELSE IF direction.kind = "Vertical" THEN << 0, bounds.h, parent_height >>
    ELSE IF direction.kind = "Corner"
    THEN IF direction.horizontal = "Right" /\ direction.vertical = "Bottom"
         THEN << bounds.w, bounds.h, parent_width >>
         ELSE << 0, 0, 0 >>
    ELSE << 0, 0, 0 >>

\* The positions of the stops: the explicit position over the parent length,
\* or the index over the number of stops less one.
gradient_stops(stops, parent_length) ==
    [ index \in DOMAIN stops |->
        [ pos |-> IF stops[index].position # << >>
                  THEN FxDiv(to_pixels(stops[index].position[1], parent_length),
                             parent_length)
                  ELSE FxDiv((index - 1) * F, (Len(stops) - 1) * F),
          color |-> stops[index].color ] ]

\* The paint the caller passed in, left as it was.
PaintUnchanged == [ kind |-> "unchanged" ]
\* Paint::linear_gradient_stops
linear_gradient_stops(x0, y0, x1, y1, stops) ==
    [ kind |-> "linear_gradient", start |-> << x0, y0 >>, end |-> << x1, y1 >>,
      stops |-> stops ]

\* The paint of draw_gradient for an entity with a layout parent.
gradient_paint(p, c, parent, cur) ==
    LET bounds == c.bounds[cur]
        parent_width == c.bounds[parent].w
        parent_height == c.bounds[parent].h
    IN  IF cur \in DOMAIN p.background_gradient
           /\ p.background_gradient[cur].kind = "Linear"
        THEN LET linear_gradient == p.background_gradient[cur]
                 e == gradient_end(linear_gradient.direction, bounds,
                                   parent_width, parent_height)
             IN  linear_gradient_stops(bounds.x, bounds.y,
                                       bounds.x + e[1], bounds.y + e[2],
                                       gradient_stops(linear_gradient.stops, e[3]))
        ELSE PaintUnchanged

\* draw_gradient looking at the style before the layout parent.
draw_gradient_value_style_first(p, c, t, cur) ==
    IF cur \notin DOMAIN p.background_gradient
    THEN [ panicked |-> FALSE, paint |-> PaintUnchanged ]
    ELSE IF get_layout_parent(t, cur) = Null
    THEN [ panicked |-> TRUE, paint |-> PaintUnchanged ]
    ELSE [ panicked |-> FALSE,
           paint |-> gradient_paint(p, c, get_layout_parent(t, cur), cur) ]

\* What draw_gradient does: it panics for an entity without layout parent,
\* else it sets the paint.
draw_gradient_value(p, c, t, cur) ==
    LET parent == get_layout_parent(t, cur)
    IN  IF parent = Null
        THEN [ panicked |-> TRUE, paint |-> PaintUnchanged ]
        ELSE [ panicked |-> FALSE, paint |-> gradient_paint(p, c, parent, cur) ]

\* DrawContext::draw_gradient
draw_gradient ==
    LET r == draw_gradient_value(props, cache, tree, current)
    IN  /\ out' = [ op |-> "draw_gradient", panicked |-> r.panicked,
                    paint |-> r.paint ]
        /\ last' = Call("draw_gradient", FALSE)
        /\ UNCHANGED << eventVars, props, cache, deviceVars >>


\* ------------------------------------------------------------------------
\* Typed ancestor lookup of both views
\* ------------------------------------------------------------------------
\* The unit type (), and the absent and present results of a lookup.
UnitType == "()"
None == [ some |-> FALSE, from |-> "none", entity |-> Null ]
Some(from, e) == [ some |-> TRUE, from |-> from, entity |-> e ]

\* The body of the loop of data() with the view tried before the model.
RECURSIVE data_loop_view_first(_, _, _)
data_loop_view_first(d, entities, T) ==
    IF entities = << >> THEN None
    ELSE LET entity == Head(entities)
         IN  IF d.views[entity] = T THEN Some("view", entity)
             ELSE IF T \in d.models[entity] THEN Some("model", entity)
             ELSE data_loop_view_first(d, Tail(entities), T)

\* The loop of data() over the entities parent_iter gives: the stored model
\* of the type, else the view when it is of the type, else the next entity.
RECURSIVE data_loop(_, _, _)
data_loop(d, entities, T) ==
    IF entities = << >> THEN None
    ELSE LET entity == Head(entities)
         IN  IF T \in d.models[entity] THEN Some("model", entity)
             ELSE IF d.views[entity] = T THEN Some("view", entity)
             ELSE data_loop(d, Tail(entities), T)

\* <EventContext as DataContext>::data
event_data(d, t, cur, T) ==
    IF T = UnitType THEN Some("unit", Null)
    ELSE data_loop(d, parent_iter(t, cur), T)

\* <DrawContext as DataContext>::data
draw_data(d, t, cur, T) ==
    IF T = UnitType THEN Some("unit", Null)
    ELSE data_loop(d, parent_iter(t, cur), T)

\* data::<T>() called through the Event View.
EventData(T) ==
    /\ out' = [ op |-> "data", view |-> "Event", type |-> T,
                value |-> event_data(data, tree, current, T) ]
    /\ last' = Call("data", FALSE)
    /\ UNCHANGED << eventVars, props, cache, deviceVars >>

\* data::<T>() called through the Draw View.
DrawData(T) ==
    /\ out' = [ op |-> "data", view |-> "Draw", type |-> T,
                value |-> draw_data(data, tree, current, T) ]
    /\ last' = Call("data", FALSE)
    /\ UNCHANGED << eventVars, props, cache, deviceVars >>


\* ------------------------------------------------------------------------
\* Detached work
\* ------------------------------------------------------------------------
\* The proxy given the sender whether or not one is installed.
spawn_proxy_with_sender(cur, event_proxy) ==
    [ current |-> cur, event_proxy |-> TRUE, sends |-> 0 ]

\* The ContextProxy spawn builds: the current entity and a clone of the
\* event proxy, none when none is installed; it has sent nothing yet.
spawn_proxy(cur, event_proxy) ==
    [ current |-> cur, event_proxy |-> event_proxy, sends |-> 0 ]

\* EventContext::spawn: the proxy moves to a new thread.
spawn ==
    /\ Len(detached.workers) < MaxWorkers
    /\ detached' = [ detached EXCEPT
                       !.workers = Append(@, spawn_proxy(current, detached.event_proxy)) ]
    /\ last' = Call("spawn", FALSE)
    /\ UNCHANGED << eventVars, props, cache, out, canvas, draw_cache, data >>

\* The event that a worker sends as its k-th.
WorkEvent(w, k) ==
    Event(<< "Work", w, k >>, detached.workers[w].current,
          detached.workers[w].current, "Up")

\* A worker sends an event through its clone of the event proxy: one send
\* puts one event into the channel of the event loop.
ProxySend(w) ==
    /\ detached.workers[w].event_proxy
    /\ detached.workers[w].sends < MaxSends
    /\ detached' = [ detached EXCEPT
                       !.workers[w].sends = @ + 1,
                       !.sent = Append(@, WorkEvent(w, detached.workers[w].sends + 1)) ]
    /\ UNCHANGED << eventVars, last, props, cache, out, canvas, draw_cache, data >>

\* The event loop takes the oldest event of the channel into the event queue.
Deliver ==
    /\ detached.sent # << >>
    /\ event_queue' = Append(event_queue, Head(detached.sent))
    /\ detached' = [ detached EXCEPT !.sent = Tail(@) ]
    /\ UNCHANGED << tree, current, pseudo_classes, classes, focused, captured,
                    hovered, cursor, system_flags, cursor_icon_locked,
                    window_size, user_scale_factor, themes, stylesheets, rules,
                    listeners, ignore_default_theme, last, last_capture,
                    props, cache, out, canvas, draw_cache, data >>

\* ------------------------------------------------------------------------
\* Pixel conversions of the two views
\* ------------------------------------------------------------------------
\* Style::physical_to_logical, as the Event View calls it.
style_physical_to_logical(p, physical) == FxDiv(physical, p.dpi_factor)

\* EventContext::logical_to_physical
event_logical_to_physical(p, logical) == style_logical_to_physical(p, logical)
\* EventContext::physical_to_logical
event_physical_to_logical(p, physical) == style_physical_to_logical(p, physical)

\* DrawContext::physical_to_logical
physical_to_logical(p, physical) == FxMul(physical, p.dpi_factor)

\* A call of DrawContext::logical_to_physical with the argument.
DrawLogicalToPhysical(logical) ==
    /\ out' = [ op |-> "logical_to_physical", arg |-> logical,
                value |-> logical_to_physical(props, logical) ]
    /\ last' = Call("logical_to_physical", FALSE)
    /\ UNCHANGED << eventVars, props, cache, deviceVars >>

\* A call of DrawContext::physical_to_logical with the argument.
DrawPhysicalToLogical(physical) ==
    /\ out' = [ op |-> "physical_to_logical", arg |-> physical,
                value |-> physical_to_logical(props, physical) ]
    /\ last' = Call("physical_to_logical", FALSE)
    /\ UNCHANGED << eventVars, props, cache, deviceVars >>

\* ------------------------------------------------------------------------
\* Specification of the focus protocol
\* ------------------------------------------------------------------------
\* The state a view starts from: every entity of the tree owns an empty
\* pseudo-class row, the null entity owns none; focus is on the root or on
\* nothing.
InitCommon ==
    /\ pseudo_classes = [e \in Entities |-> {}]
    /\ classes = [e \in Entities |-> {}]
    /\ captured = Null
    /\ event_queue = << >>
    /\ system_flags = {}
    /\ cursor_icon_locked = FALSE
    /\ window_size = DefaultWindowSize
    /\ user_scale_factor = DefaultScaleFactor
    /\ rules = << "builtin" >>
    /\ listeners = {}
    /\ calls = 0
    /\ last = NoCall
    /\ last_capture = [ entity |-> Null, released |-> FALSE ]

InitFocus ==
    /\ InitCommon
    /\ InitResolver
    /\ tree \in Trees
    /\ current \in Entities
    /\ focused \in {Root, Null}
    /\ hovered = Root
    /\ cursor = [e \in {Root} |-> "Hand"]
    /\ themes = << >>
    /\ stylesheets = << >>
    /\ ignore_default_theme = FALSE

NextFocus ==
    \/ \E e \in Entities : NewView(e) /\ UNCHANGED calls
    \/ \E v \in BOOLEAN : focus_with_visibility(v) /\ UNCHANGED calls
    \/ focus /\ UNCHANGED calls

SpecFocus == InitFocus /\ [][NextFocus]_vars

\* ------------------------------------------------------------------------
\* Specification of the capture protocol
\* ------------------------------------------------------------------------
InitCapture ==
    /\ InitCommon
    /\ InitResolver
    /\ tree \in Trees
    /\ current \in Entities
    /\ focused = Root
    /\ hovered = Root
    /\ cursor = [e \in {Root} |-> "Hand"]
    /\ themes = << >>
    /\ stylesheets = << >>
    /\ ignore_default_theme = FALSE

NextCapture ==
    \/ \E e \in Entities : NewView(e) /\ UNCHANGED calls
    \/ capture /\ UNCHANGED calls
    \/ release /\ UNCHANGED calls

SpecCapture == InitCapture /\ [][NextCapture]_vars

\* ------------------------------------------------------------------------
\* Specification of all operations of the Event View, called in any order
\* through the view built for one entity
\* ------------------------------------------------------------------------
\* The registered themes and stylesheet files of the resource manager.
ThemeLists == { << >>, << "default", LIGHT_THEME >> }
StylesheetLists == { << >>, << "a.css", "b.css" >> }
StylesheetFiles == { "a.css", "b.css" }

Init ==
    /\ InitCommon
    /\ InitResolver
    /\ tree \in Trees
    /\ current \in Entities
    /\ focused = Root
    /\ hovered \in {Root, NumEntities - 1}
    /\ cursor = [e \in {Root} |-> "Hand"]
    /\ themes \in ThemeLists
    /\ stylesheets \in StylesheetLists
    /\ ignore_default_theme \in BOOLEAN

\* One handler call, counted.
Step(A) == calls < MaxCalls /\ A /\ calls' = calls + 1

Next ==
    \/ \E v \in BOOLEAN : Step(focus_with_visibility(v))
    \/ Step(focus)
    \/ Step(capture)
    \/ Step(release)
    \/ \E v \in BOOLEAN : Step(set_active(v))
    \/ \E v \in BOOLEAN : Step(set_hover(v))
    \/ \E v \in BOOLEAN : Step(set_checked(v))
    \/ \E v \in BOOLEAN : Step(set_selected(v))
    \/ \E c \in ClassNames, v \in BOOLEAN : Step(toggle_class(c, v))
    \/ Step(lock_cursor_icon)
    \/ Step(unlock_cursor_icon)
    \/ Step(add_listener)
    \/ \E t \in {LIGHT_THEME, DARK_THEME} : Step(set_theme_mode(t))
    \/ Step(needs_redraw)
    \/ Step(needs_relayout)
    \/ \E sz \in WindowSizes : Step(set_window_size(sz))
    \/ \E f \in ScaleFactors : Step(set_user_scale_factor(f))
    \/ \E u \in SUBSET StylesheetFiles : Step(reload_styles(u))
    \/ \E m \in Messages : Step(emit(m))
    \/ \E t \in Entities, m \in Messages : Step(emit_to(t, m))
    \/ \E ev \in CustomEvents : Step(emit_custom(ev))

Spec == Init /\ [][Next]_vars

\* ------------------------------------------------------------------------
\* Specification of the clip region: clip_region called on any geometry
\* ------------------------------------------------------------------------
\* The default Event View state around a resolver call.
InitView ==
    /\ InitCommon
    /\ tree \in Trees
    /\ current \in Entities
    /\ focused = Root
    /\ hovered = Root
    /\ cursor = [e \in {Root} |-> "Hand"]
    /\ themes = << >>
    /\ stylesheets = << >>
    /\ ignore_default_theme = FALSE

\* The boxes the layout cache may hold.
Boxes ==
    { BoundingBox(0, 0, Px(40), Px(20)),
      BoundingBox(Px(5), Px(5), Px(10), Px(10)),
      BoundingBox(Px(10), 0, Px(20), Px(30)) }
\* dpi factors 1.0 and 1.5.
DpiFactors == { F, (3 * F) \div 2 }
Overflows == { "Visible", "Hidden" }
ClipPaths ==
    { ClipAuto,
      ClipShape(LengthPx(Px(1)), LengthPx(Px(2)), LengthPx(Px(3)), LengthPx(Px(4))),
      ClipShape(Percentage(F \div 10), LengthOther(Px(2)), LengthPx(Px(1)),
                Percentage(F \div 4)) }
\* The tables holding no row or one row for the entity, from the values.
Rows(e, values) == { EmptyTable } \cup { Row(e, v) : v \in values }

InitClip ==
    /\ InitView
    /\ InitDevice
    /\ cache \in { [ DefaultCache EXCEPT !.bounds = b ] : b \in [Entities -> Boxes] }
    /\ \E d \in DpiFactors,
          ox \in Rows(current, Overflows), oy \in Rows(current, Overflows),
          cp \in Rows(current, ClipPaths) :
            props = [ NoProps EXCEPT !.dpi_factor = d, !.overflowx = ox,
                                     !.overflowy = oy, !.clip_path = cp ]
    /\ out = NoOut

NextClip == clip_region /\ UNCHANGED calls

SpecClip == InitClip /\ [][NextClip]_vars

\* ------------------------------------------------------------------------
\* Specification of the transform: transform called on any styled entity
\* ------------------------------------------------------------------------
\* transform-origin values: the center as percentages, the center of the
\* 10 x 10 box in pixels, the corner, a point off the center.
Origins ==
    { Translate(Percentage(F \div 2), Percentage(F \div 2)),
      Translate(LengthPx(Px(5)), LengthPx(Px(5))),
      Translate(LengthPx(0), LengthPx(0)),
      Translate(Percentage(F), LengthPx(Px(2))) }
Translates == { Translate(LengthPx(Px(3)), Percentage(F \div 2)) }
Rotates == { Rotate(1) }
Scales == { Scale(2 * F, F) }
\* Lists of transform functions.
TransformLists ==
    { << Rotate(1) >>,
      << Translate(LengthPx(Px(2)), LengthPx(0)), Scale(2 * F, 2 * F) >> }
\* Interpolation parameters 0, 0.5 and 1.
Parameters == { 0, F \div 2, F }
\* Keyframe lists: none, one, two and three keyframes.
KeyframeLists ==
    { << >>,
      << << 0, << Scale(2 * F, 2 * F) >> >> >>,
      << << 0, << >> >>, << F, << Rotate(2) >> >> >>,
      << << 0, << Translate(LengthPx(Px(4)), LengthPx(0)) >> >>,
         << F \div 2, << Rotate(1) >> >>,
         << F, << Scale(3 * F, F) >> >> >> }
AnimationStates ==
    { [ keyframes |-> k, t |-> t ] : k \in KeyframeLists, t \in Parameters }

InitTransform ==
    /\ InitView
    /\ InitDevice
    /\ \E b \in Boxes : cache = [ DefaultCache EXCEPT !.bounds[current] = b ]
    /\ \E d \in DpiFactors,
          o \in Rows(current, Origins), tr \in Rows(current, Translates),
          r \in Rows(current, Rotates), s \in Rows(current, Scales),
          l \in Rows(current, TransformLists),
          a \in Rows(current, AnimationStates) :
            props = [ NoProps EXCEPT !.dpi_factor = d, !.transform_origin = o,
                                     !.translate = tr, !.rotate = r, !.scale = s,
                                     !.transform = l, !.transform_animation = a ]
    /\ out = NoOut

NextTransform == transform /\ UNCHANGED calls

SpecTransform == InitTransform /\ [][NextTransform]_vars

\* ------------------------------------------------------------------------
\* Specification of the unit-typed accessors of the Draw View
\* ------------------------------------------------------------------------
\* Stored unit values: 1, 2 and 2.5 pixels, a percentage, a stretch, auto.
UnitValues ==
    { Pixels(Px(1)), Pixels(Px(2)), Pixels((5 * F) \div 2),
      UnitsPercentage(F \div 2), Stretch(F), Auto }

InitUnits ==
    /\ InitView
    /\ InitDevice
    /\ cache = DefaultCache
    /\ \E d \in DpiFactors,
          l \in Rows(current, UnitValues), r \in Rows(current, UnitValues),
          t \in Rows(current, { Pixels(Px(1)), Auto }),
          b \in Rows(current, { Pixels(Px(2)), Stretch(F) }) :
            props = [ NoProps EXCEPT !.dpi_factor = d, !.child_left = l,
                                     !.child_right = r, !.child_top = t,
                                     !.child_bottom = b ]
    /\ out = NoOut

NextUnits ==
    \/ child_left /\ UNCHANGED calls
    \/ child_right /\ UNCHANGED calls
    \/ child_top /\ UNCHANGED calls
    \/ child_bottom /\ UNCHANGED calls

SpecUnits == InitUnits /\ [][NextUnits]_vars


\* ------------------------------------------------------------------------
\* Specification of the length accessors of the Draw View
\* ------------------------------------------------------------------------
\* Stored lengths: 1 and 2.5 pixels, 50% and 10%, 2 em.
LengthValues ==
    { LengthPx(Px(1)), LengthPx((5 * F) \div 2), Percentage(F \div 2),
      Percentage(F \div 10), LengthOther(Px(2)) }
\* The boxes of the entity drawn: 100 x 40, 10 x 30 and 30 x 10.
LengthBoxes ==
    { BoundingBox(0, 0, Px(100), Px(40)),
      BoundingBox(Px(5), Px(5), Px(10), Px(30)),
      BoundingBox(Px(10), 0, Px(30), Px(10)) }

InitLengths ==
    /\ InitView
    /\ InitDevice
    /\ \E b \in LengthBoxes : cache = [ DefaultCache EXCEPT !.bounds[current] = b ]
    /\ \E d \in DpiFactors,
          bw \in Rows(current, LengthValues),
          ow \in Rows(current, { Percentage(F \div 2) }),
          oo \in Rows(current, { LengthPx(Px(3)) }),
          tl \in Rows(current, { Percentage(F \div 10) }),
          tr \in Rows(current, { LengthPx(Px(1)) }),
          bl \in Rows(current, { LengthOther(Px(2)) }),
          br \in Rows(current, { LengthPx((5 * F) \div 2) }) :
            props = [ NoProps EXCEPT !.dpi_factor = d, !.border_width = bw,
                                     !.outline_width = ow, !.outline_offset = oo,
                                     !.border_top_left_radius = tl,
                                     !.border_top_right_radius = tr,
                                     !.border_bottom_left_radius = bl,
                                     !.border_bottom_right_radius = br ]
    /\ out = NoOut

NextLengths ==
    \/ border_width /\ UNCHANGED calls
    \/ outline_width /\ UNCHANGED calls
    \/ outline_offset /\ UNCHANGED calls
    \/ border_top_left_radius /\ UNCHANGED calls
    \/ border_top_right_radius /\ UNCHANGED calls
    \/ border_bottom_left_radius /\ UNCHANGED calls
    \/ border_bottom_right_radius /\ UNCHANGED calls

SpecLengths == InitLengths /\ [][NextLengths]_vars


\* ------------------------------------------------------------------------
\* Specification of the color accessors of the Draw View
\* ------------------------------------------------------------------------
\* Stored colors: an opaque red and a half transparent color.
Colors == { rgba(255, 0, 0, 255), rgba(10, 20, 30, 128) }
\* Cached opacities 0, 0.25, 0.5 and 1.
Opacities == { 0, F \div 4, F \div 2, F }

InitColors ==
    /\ InitView
    /\ InitDevice
    /\ \E o \in Opacities : cache = [ DefaultCache EXCEPT !.opacity[current] = o ]
    /\ \E fc \in Rows(current, Colors), bg \in Rows(current, Colors),
          bc \in Rows(current, { rgba(255, 0, 0, 255) }),
          oc \in Rows(current, { rgba(10, 20, 30, 128) }),
          sc \in Rows(current, { rgba(255, 0, 0, 255) }),
          cc \in Rows(current, { rgba(10, 20, 30, 128) }) :
            props = [ NoProps EXCEPT !.font_color = fc, !.background_color = bg,
                                     !.border_color = bc, !.outline_color = oc,
                                     !.selection_color = sc, !.caret_color = cc ]
    /\ out = NoOut

NextColors ==
    \/ font_color /\ UNCHANGED calls
    \/ background_color /\ UNCHANGED calls
    \/ border_color /\ UNCHANGED calls
    \/ outline_color /\ UNCHANGED calls
    \/ selection_color /\ UNCHANGED calls
    \/ caret_color /\ UNCHANGED calls

SpecColors == InitColors /\ [][NextColors]_vars


\* ------------------------------------------------------------------------
\* Specification of the shadows: draw_shadows called on successive frames
\* ------------------------------------------------------------------------
Black == rgba(0, 0, 0, 255)
\* Shadows with a blur radius of 2, none, 3 and 0 pixels.
ShadowA == BoxShadow(Px(1), Px(2), << Px(2) >>, Black)
ShadowB == BoxShadow(0, 0, << >>, Black)
ShadowC == BoxShadow(Px(3), 0, << Px(3) >>, rgba(255, 0, 0, 255))
ShadowD == BoxShadow(0, Px(1), << 0 >>, Black)
ShadowLists ==
    { << ShadowA >>, << ShadowA, ShadowB >>, << ShadowB, ShadowC, ShadowA >>,
      << ShadowD, ShadowC >> }

InitShadows ==
    /\ InitView
    /\ \E b \in Boxes : cache = [ DefaultCache EXCEPT !.bounds[current] = b ]
    /\ \E d \in DpiFactors, s \in Rows(current, ShadowLists) :
            props = [ NoProps EXCEPT !.dpi_factor = d, !.box_shadow = s ]
    /\ out = NoOut
    /\ InitDevice

NextShadows == Step(draw_shadows)

SpecShadows == InitShadows /\ [][NextShadows]_vars


\* ------------------------------------------------------------------------
\* Specification of the gradient: draw_gradient called on any entity
\* ------------------------------------------------------------------------
Directions ==
    { Horizontal(h) : h \in { "Left", "Right" } }
    \cup { Vertical(v) : v \in { "Top", "Bottom" } }
    \cup { Corner(h, v) : h \in { "Left", "Right" }, v \in { "Top", "Bottom" } }
    \cup { Angle }
\* Stop lists: two stops spaced by index, three stops with one position.
StopLists ==
    { << ColorStop(<< >>, rgba(0, 0, 0, 255)), ColorStop(<< >>, rgba(255, 0, 0, 255)) >>,
      << ColorStop(<< >>, rgba(0, 0, 0, 255)),
         ColorStop(<< LengthPx(Px(5)) >>, rgba(0, 255, 0, 255)),
         ColorStop(<< Percentage(F) >>, rgba(255, 0, 0, 255)) >> }
Gradients == { Linear(d, s) : d \in Directions, s \in StopLists } \cup { Radial }

InitGradient ==
    /\ InitView
    /\ InitDevice
    /\ \E b \in Boxes : cache = [ DefaultCache EXCEPT !.bounds[current] = b ]
    /\ \E g \in Rows(current, Gradients) :
            props = [ NoProps EXCEPT !.background_gradient = g ]
    /\ out = NoOut

NextGradient == draw_gradient /\ UNCHANGED calls

SpecGradient == InitGradient /\ [][NextGradient]_vars


\* ------------------------------------------------------------------------
\* Specification of the typed ancestor lookup
\* ------------------------------------------------------------------------
\* The types of the models and views, and the types asked for.
ModelTypes == { "AppData", "Theme" }
QueryTypes == ModelTypes \cup { UnitType }

InitData ==
    /\ InitView
    /\ props = NoProps
    /\ cache = DefaultCache
    /\ out = NoOut
    /\ canvas = NoCanvas
    /\ draw_cache = [ shadow_image |-> EmptyTable ]
    /\ detached = NoDetached
    /\ \E m \in [Entities -> { {}, { "AppData" }, { "Theme" } }],
          v \in [Entities -> { "none", "AppData" }] :
            data = [ models |-> m, views |-> v ]

NextData ==
    \/ \E T \in QueryTypes : EventData(T) /\ UNCHANGED calls
    \/ \E T \in QueryTypes : DrawData(T) /\ UNCHANGED calls

SpecData == InitData /\ [][NextData]_vars


\* ------------------------------------------------------------------------
\* Specification of the detached work: workers spawned, sending concurrently
\* ------------------------------------------------------------------------
\* The tree in which every entity is the parent of the next.
ChainTree == [e \in Entities |-> e - 1]

InitSpawn ==
    /\ InitCommon
    /\ tree = ChainTree
    /\ current \in Entities
    /\ focused = Root
    /\ hovered = Root
    /\ cursor = [e \in {Root} |-> "Hand"]
    /\ themes = << >>
    /\ stylesheets = << >>
    /\ ignore_default_theme = FALSE
    /\ props = NoProps
    /\ cache = DefaultCache
    /\ out = NoOut
    /\ canvas = NoCanvas
    /\ draw_cache = [ shadow_image |-> EmptyTable ]
    /\ data = NoData
    /\ \E p \in BOOLEAN : detached = [ NoDetached EXCEPT !.event_proxy = p ]

NextSpawn ==
    \/ spawn /\ UNCHANGED calls
    \/ \E w \in DOMAIN detached.workers : ProxySend(w) /\ UNCHANGED calls
    \/ Deliver /\ UNCHANGED calls

SpecSpawn == InitSpawn /\ [][NextSpawn]_vars

\* ------------------------------------------------------------------------
\* Specification of the pixel conversions of the Draw View
\* ------------------------------------------------------------------------
\* Scale factors 1, 1.5 and 2.
PixelFactors == { F, (3 * F) \div 2, 2 * F }
\* Logical lengths: 1, 2, 3 and 4.5.
LogicalValues == { Px(1), Px(2), Px(3), (9 * F) \div 2 }

InitPixels ==
    /\ InitView
    /\ InitDevice
    /\ cache = DefaultCache
    /\ \E d \in PixelFactors : props = [ NoProps EXCEPT !.dpi_factor = d ]
    /\ out = NoOut

\* A length is converted to physical pixels; a physical length, either the
\* result of the conversion before or any of the values, is converted back.
NextPixels ==
    \/ \E x \in LogicalValues : DrawLogicalToPhysical(x) /\ UNCHANGED calls
    \/ /\ out.op = "logical_to_physical"
       /\ DrawPhysicalToLogical(out.value)
       /\ UNCHANGED calls
    \/ \E y \in LogicalValues : DrawPhysicalToLogical(y) /\ UNCHANGED calls

SpecPixels == InitPixels /\ [][NextPixels]_vars

\* ------------------------------------------------------------------------
\* Specification of the style reload: reloads, failing or not, between
\* invalidation requests
\* ------------------------------------------------------------------------
InitReload ==
    /\ InitCommon
    /\ InitResolver
    /\ tree = ChainTree
    /\ current \in Entities
    /\ focused = Root
    /\ hovered = Root
    /\ cursor = [e \in {Root} |-> "Hand"]
    /\ themes \in ThemeLists
    /\ stylesheets \in StylesheetLists
    /\ ignore_default_theme = FALSE

NextReload ==
    \/ \E u \in SUBSET StylesheetFiles : reload_styles(u) /\ UNCHANGED calls
    \/ needs_redraw /\ UNCHANGED calls
    \/ needs_relayout /\ UNCHANGED calls

SpecReload == InitReload /\ [][NextReload]_vars

\* ------------------------------------------------------------------------
\* Specification of the event queue: all operations of the Event View,
\* called in any order through the view built for any one entity, with
\* themes and stylesheets registered
\* ------------------------------------------------------------------------
InitQueue ==
    /\ InitCommon
    /\ InitResolver
    /\ tree = ChainTree
    /\ current \in Entities
    /\ focused = Root
    /\ hovered = Root
    /\ cursor = [e \in {Root} |-> "Hand"]
    /\ themes = << "default", LIGHT_THEME >>
    /\ stylesheets = << "a.css", "b.css" >>
    /\ ignore_default_theme = FALSE

SpecQueue == InitQueue /\ [][Next]_vars

\* ------------------------------------------------------------------------
\* Properties of the focus protocol
\* ------------------------------------------------------------------------
IsFocusCall == last.op \in {"focus_with_visibility", "focus"}
\* The last call moved the focus from last.focused to last.current.
FocusMoved == IsFocusCall /\ last.focused # last.current
HasFlag(e, flag) == e \in DOMAIN pseudo_classes /\ flag \in pseudo_classes[e]

\* C1: focus_with_visibility called on B while a different entity A is
\* focused appends exactly two events, FocusOut targeted at A immediately
\* followed by FocusIn targeted at B, and leaves B focused.
C1_FocusEventsInOrder ==
    [][ \A v \in BOOLEAN :
          (focus_with_visibility(v) /\ current # focused) =>
             /\ Len(event_queue') = Len(event_queue) + 2
             /\ SubSeq(event_queue', 1, Len(event_queue)) = event_queue
             /\ event_queue'[Len(event_queue) + 1].message = << "FocusOut" >>
             /\ event_queue'[Len(event_queue) + 1].target = focused
             /\ event_queue'[Len(event_queue) + 2].message = << "FocusIn" >>
             /\ event_queue'[Len(event_queue) + 2].target = current
             /\ focused' = current ]_vars

\* A call of focus_with_visibility has moved the focus from one entity of the
\* tree to another.
C1_Witness ==
    /\ last.op = "focus_with_visibility"
    /\ last.focused \in Entities
    /\ last.focused # last.current
    /\ focused = last.current
    /\ Len(event_queue) = 2

\* C2: after a focus transition from A to B, FOCUS_WITHIN is set on every
\* entity of B's ancestor chain and cleared on every entity of A's ancestor
\* chain that is not on B's chain, for every shape of the tree.
C2_FocusWithinChains ==
    FocusMoved =>
        /\ \A e \in Chain(tree, last.current) : HasFlag(e, "FOCUS_WITHIN")
        /\ \A e \in Chain(tree, last.focused) \ Chain(tree, last.current) :
               ~HasFlag(e, "FOCUS_WITHIN")

\* The focus has moved between two branches of the tree, away from an entity
\* that an earlier call had focused.
C2_Witness ==
    /\ FocusMoved
    /\ last.focused \in Entities
    /\ last.focused \notin Chain(tree, last.current)
    /\ last.current \notin Chain(tree, last.focused)
    /\ Len(event_queue) = 4

\* C3: after focus_with_visibility(visible) moves focus from old to new,
\* FOCUS is cleared on old and set on new, FOCUS_VISIBLE is cleared on old
\* whatever visible is, and is set on new exactly when visible is true.
C3_FocusAndVisibleBits ==
    FocusMoved =>
        /\ ~HasFlag(last.focused, "FOCUS")
        /\ ~HasFlag(last.focused, "FOCUS_VISIBLE")
        /\ HasFlag(last.current, "FOCUS")
        /\ HasFlag(last.current, "FOCUS_VISIBLE") <=> last.flag

\* The focus has moved, without a visible indicator, away from an entity
\* that an earlier call had focused.
C3_Witness ==
    /\ last.op = "focus_with_visibility"
    /\ last.focused \in Entities
    /\ last.focused # last.current
    /\ ~last.flag
    /\ Len(event_queue) = 4

\* C4: focus() is focus_with_visibility(v) with v true exactly when the
\* entity focused before the call carries FOCUS_VISIBLE (false when it has
\* no row), so the new focused entity shows the indicator exactly when the
\* previous one did.
C4_FocusReusesVisibility ==
    [][ focus =>
          LET v == /\ focused \in DOMAIN pseudo_classes
                   /\ "FOCUS_VISIBLE" \in pseudo_classes[focused]
          IN  /\ pseudo_classes' = focus_pseudo_classes(pseudo_classes, tree,
                                                        focused, current, v)
              /\ event_queue' = focus_events(event_queue, focused, current)
              /\ focused' = focus_target(focused, current)
              /\ system_flags' = needs_restyle_flags(system_flags)
              /\ ("FOCUS_VISIBLE" \in pseudo_classes'[current]) <=> v ]_vars

\* focus() has carried the visible indicator to a second entity.
C4_Witness ==
    /\ last.op = "focus"
    /\ last.flag
    /\ last.focused \in Entities
    /\ last.focused # last.current
    /\ HasFlag(last.current, "FOCUS_VISIBLE")
    /\ Len(event_queue) = 4

\* C5: focus_with_visibility(v) called by the focused entity enqueues no
\* event and leaves the focused entity unchanged, and a second call in a
\* row with the same v changes nothing.
C5_RefocusIdempotent ==
    /\ [][ \A v \in BOOLEAN :
             (focus_with_visibility(v) /\ current = focused) =>
                /\ event_queue' = event_queue
                /\ focused' = focused
                /\ (last = Call("focus_with_visibility", v)) =>
                     /\ pseudo_classes' = pseudo_classes
                     /\ system_flags' = system_flags ]_vars
    /\ [] ( (last.op = "focus_with_visibility" /\ last.focused = last.current) =>
              /\ focus_events(event_queue, focused, last.current) = event_queue
              /\ focus_target(focused, last.current) = focused
              /\ focus_pseudo_classes(pseudo_classes, tree, focused,
                                      last.current, last.flag) = pseudo_classes
              /\ needs_restyle_flags(system_flags) = system_flags )

\* The focused entity has called focus_with_visibility on itself.
C5_Witness ==
    /\ last.op = "focus_with_visibility"
    /\ last.focused = last.current
    /\ focused = last.current
    /\ HasFlag(focused, "FOCUS")

\* ------------------------------------------------------------------------
\* Properties of the capture protocol
\* ------------------------------------------------------------------------
\* C6: release() called by an entity that does not hold the capture leaves
\* the captured-entity slot unchanged; called by the holder it resets the
\* slot to the null entity.
C6_ReleaseOnlyByHolder ==
    [][ release =>
          /\ (current # captured) => (captured' = captured)
          /\ (current = captured) => (captured' = Null) ]_vars

\* An entity has called release() while another entity held the capture.
C6_Witness ==
    /\ last.op = "release"
    /\ last.captured \in Entities
    /\ last.captured # last.current
    /\ captured = last.captured

\* C7: capture() overwrites the slot with the calling entity whoever holds
\* it, so after any interleaving of capture() and release() calls the slot
\* is null or holds the entity of the most recent capture() call, which has
\* not called release() since.
C7_CaptureOverwrites ==
    /\ (last.op = "capture") => (captured = last.current)
    /\ \/ captured = Null
       \/ /\ captured = last_capture.entity
          /\ ~last_capture.released

\* capture() has taken the slot from another entity that held it.
C7_Witness ==
    /\ last.op = "capture"
    /\ last.captured \in Entities
    /\ last.captured # last.current
    /\ captured = last.current

\* ------------------------------------------------------------------------
\* Properties of the invalidation flags
\* ------------------------------------------------------------------------
\* C8: no operation of the Event View clears a bit of the invalidation
\* flags: a bit set before an operation is still set after it.
C8_FlagsMonotonic ==
    [][ system_flags \subseteq system_flags' ]_vars

\* A bit set by a first call has survived a second call that sets other bits.
C8_Witness ==
    /\ calls = 2
    /\ last.op = "set_user_scale_factor"
    /\ "RESTYLE" \in system_flags
    /\ "REDRAW" \notin system_flags

\* C9 as stated: after set_window_size the relayout and reflow bits are set.
C9_WindowSizeForcesRelayout ==
    (last.op = "set_window_size") =>
        /\ "RELAYOUT" \in system_flags
        /\ "REFLOW" \in system_flags

\* C9, amended: set_window_size stores the new size and leaves every bit of
\* the invalidation flags as it was; set_user_scale_factor is the call that
\* sets the relayout and reflow bits.
C9_WindowSizeKeepsFlags ==
    [][ /\ \A sz \in WindowSizes :
              set_window_size(sz) =>
                 /\ window_size' = sz
                 /\ system_flags' = system_flags
        /\ \A f \in ScaleFactors :
              set_user_scale_factor(f) =>
                 {"RELAYOUT", "REFLOW"} \subseteq system_flags' ]_vars

\* set_window_size has changed the window size and no relayout or reflow is
\* requested.
C9_Witness ==
    /\ last.op = "set_window_size"
    /\ window_size # DefaultWindowSize
    /\ "RELAYOUT" \notin system_flags
    /\ "REFLOW" \notin system_flags

\* C10: set_user_scale_factor stores the new factor, sets the relayout and
\* reflow bits and leaves the restyle and redraw bits as they were.
C10_ScaleFactorFlags ==
    [][ \A f \in ScaleFactors :
          set_user_scale_factor(f) =>
             /\ user_scale_factor' = f
             /\ "RELAYOUT" \in system_flags'
             /\ "REFLOW" \in system_flags'
             /\ ("RESTYLE" \in system_flags') <=> ("RESTYLE" \in system_flags)
             /\ ("REDRAW" \in system_flags') <=> ("REDRAW" \in system_flags)
      ]_vars

\* The factor went from 1.0 to 1.5 with redraw requested before and restyle
\* not.
C10_Witness ==
    /\ last.op = "set_user_scale_factor"
    /\ user_scale_factor = 15
    /\ system_flags = {"REDRAW", "RELAYOUT", "REFLOW"}

\* ------------------------------------------------------------------------
\* Properties of the style reload
\* ------------------------------------------------------------------------
AllReloadFlags == {"RESTYLE", "RELAYOUT", "REDRAW"}
NothingRegistered == themes = << >> /\ stylesheets = << >>

\* C11 as stated: after every reload_styles call that returns Ok the
\* restyle, relayout and redraw bits are set, whatever the registered theme
\* and stylesheet lists hold, both lists empty included.
C11_ReloadAlwaysForces ==
    (last.op = "reload_styles" /\ last.result = "Ok") =>
        AllReloadFlags \subseteq system_flags

\* C11, amended: a reload_styles call that returns Ok with at least one
\* theme or stylesheet registered leaves the restyle, relayout and redraw
\* bits set; with both lists empty it returns Ok and changes neither the
\* flags nor the installed rules.
C11_ReloadForcesUnlessEmpty ==
    /\ [] ( ( /\ last.op = "reload_styles"
              /\ last.result = "Ok"
              /\ ~NothingRegistered ) =>
            AllReloadFlags \subseteq system_flags )
    /\ [][ \A u \in SUBSET StylesheetFiles :
             (reload_styles(u) /\ NothingRegistered) =>
                /\ system_flags' = system_flags
                /\ rules' = rules
                /\ last'.result = "Ok" ]_vars

\* A reload with registered stylesheets has succeeded from a state with no
\* flag set.
C11_Witness ==
    /\ last.op = "reload_styles"
    /\ last.result = "Ok"
    /\ stylesheets # << >>
    /\ calls = 1
    /\ system_flags = AllReloadFlags

\* C12: when reading a registered stylesheet fails, reload_styles returns
\* that file's error at the first failing file: the file is read once, the
\* files after it are not read, and no theme text is parsed.
C12_ReloadStopsAtFirstError ==
    (last.op = "reload_styles") =>
        /\ \E n \in 0 .. Len(stylesheets) :
               last.reads = SubSeq(stylesheets, 1, n)
        /\ \A i \in 1 .. Len(last.reads) :
               (last.reads[i] \in last.unreadable) =>
                  /\ i = Len(last.reads)
                  /\ last.result = "Err"
                  /\ last.error = last.reads[i]
                  /\ ~last.parsed
                  /\ \A j \in 1 .. Len(last.reads) :
                        (last.reads[j] = last.reads[i]) => (j = i)
        /\ (last.result = "Err") =>
               /\ last.reads # << >>
               /\ last.reads[Len(last.reads)] \in last.unreadable

\* The first of two registered files could not be read; the second was not
\* touched.
C12_Witness ==
    /\ last.op = "reload_styles"
    /\ last.result = "Err"
    /\ Len(stylesheets) = 2
    /\ last.unreadable = StylesheetFiles
    /\ last.reads = << stylesheets[1] >>

\* ------------------------------------------------------------------------
\* Properties of the invalidation requests
\* ------------------------------------------------------------------------
\* C13: needs_redraw sets the redraw bit and no other bit; needs_relayout
\* sets the relayout and the redraw bit and no other bit.
C13_RedrawAndRelayoutRequests ==
    [][ /\ needs_redraw => (system_flags' = system_flags \cup {"REDRAW"})
        /\ needs_relayout =>
             (system_flags' = system_flags \cup {"RELAYOUT", "REDRAW"}) ]_vars

\* needs_relayout has been called on a view with no flag set.
C13_Witness ==
    /\ last.op = "needs_relayout"
    /\ calls = 1
    /\ system_flags = {"RELAYOUT", "REDRAW"}

C15_EmitModes ==
    [][ /\ \A m \in Messages :
              emit(m) =>
                 event_queue' = Append(event_queue,
                     [ message |-> m, target |-> current, origin |-> current,
                       propagation |-> "Up" ])
        /\ \A t \in Entities, m \in Messages :
              emit_to(t, m) =>
                 event_queue' = Append(event_queue,
                     [ message |-> m, target |-> t, origin |-> current,
                       propagation |-> "Direct" ])
        /\ \A ev \in CustomEvents :
              emit_custom(ev) => (event_queue' = Append(event_queue, ev)) ]_vars

\* emit_to has queued an event for an entity other than the sender.
C15_Witness ==
    /\ last.op = "emit_to"
    /\ event_queue # << >>
    /\ event_queue[Len(event_queue)].target # last.current
    /\ event_queue[Len(event_queue)].origin = last.current
    /\ event_queue[Len(event_queue)].propagation = "Direct"

\* ------------------------------------------------------------------------
\* Properties of the clip region
\* ------------------------------------------------------------------------
\* The table with the row of the entity set to the value.
SetRow(table, e, v) ==
    [x \in DOMAIN table \cup {e} |-> IF x = e THEN v ELSE table[x]]
ClipCalled == out.op = "clip_region"
OverflowX == Get(props.overflowx, current, OverflowDefault)
OverflowY == Get(props.overflowy, current, OverflowDefault)
\* The entity's own clip box: its bounds, shrunk when a clip shape is styled.
OwnClipBox == clip_bounds(props, cache, current)

\* C16: the clip region takes, on each axis, the root's extent when the
\* overflow of the axis is visible and the own clip box's extent when it is
\* hidden; (visible, visible) is the root bounds, (hidden, hidden) is the own
\* clip box, and the own clip box is the own bounds when no clip path or an
\* automatic one is styled.
C16_ClipRegionPerAxis ==
    ClipCalled =>
        LET root_bounds == cache.bounds[Root]
            xbox == IF OverflowX = "Hidden" THEN OwnClipBox ELSE root_bounds
            ybox == IF OverflowY = "Hidden" THEN OwnClipBox ELSE root_bounds
        IN  /\ left(out.value) = left(xbox)
            /\ right(out.value) = right(xbox)
            /\ top(out.value) = top(ybox)
            /\ bottom(out.value) = bottom(ybox)
            /\ (OverflowX = "Visible" /\ OverflowY = "Visible")
                   => out.value = root_bounds
            /\ (OverflowX = "Hidden" /\ OverflowY = "Hidden")
                   => out.value = OwnClipBox
            /\ (current \notin DOMAIN props.clip_path
                  \/ props.clip_path[current] = ClipAuto)
                   => OwnClipBox = cache.bounds[current]

\* clip_region was called on an entity other than the root whose box differs
\* from the root's, with one axis hidden, the other visible and a clip shape.
C16_Witness ==
    /\ ClipCalled
    /\ current # Root
    /\ OverflowX = "Hidden" /\ OverflowY = "Visible"
    /\ current \in DOMAIN props.clip_path
    /\ props.clip_path[current].kind = "Shape"
    /\ OwnClipBox # cache.bounds[current]
    /\ out.value # OwnClipBox
    /\ out.value # cache.bounds[Root]

\* The strict ancestors of the current entity, the root among them.
Ancestors == (Chain(tree, current) \cup {Root}) \ {current}

\* C17: with overflow (hidden, hidden) the clip region is the own clip box,
\* and it is the same box in every state that differs from this one only in
\* the bounds, the overflow and the clip path of ancestors.
C17_HiddenIgnoresAncestors ==
    (ClipCalled /\ OverflowX = "Hidden" /\ OverflowY = "Hidden") =>
        /\ out.value = OwnClipBox
        /\ \A a \in Ancestors, b \in Boxes, ox \in Overflows, oy \in Overflows,
              cp \in ClipPaths :
                clip_region_value(
                    [ props EXCEPT !.overflowx = SetRow(@, a, ox),
                                   !.overflowy = SetRow(@, a, oy),
                                   !.clip_path = SetRow(@, a, cp) ],
                    [ cache EXCEPT !.bounds[a] = b ],
                    tree, current) = out.value

\* clip_region was called with both axes hidden on an entity that has
\* ancestors, whose root holds a box that does not contain the clip box.
C17_Witness ==
    /\ ClipCalled
    /\ OverflowX = "Hidden" /\ OverflowY = "Hidden"
    /\ Cardinality(Ancestors) >= 2
    /\ cache.bounds[Root] # cache.bounds[current]
    /\ left(OwnClipBox) < left(cache.bounds[Root])

\* ------------------------------------------------------------------------
\* Properties of the transform
\* ------------------------------------------------------------------------
TransformCalled == out.op = "transform"
Bounds == cache.bounds[current]
\* The point a styled transform-origin resolves to, from the corner of the
\* bounds.
OriginOffset ==
    << resolve(props.transform_origin[current].x, Bounds.w, props.dpi_factor),
       resolve(props.transform_origin[current].y, Bounds.h, props.dpi_factor) >>
\* A transform-origin is styled and lies at the center of the bounds.
OriginAtCenter ==
    /\ current \in DOMAIN props.transform_origin
    /\ left(Bounds) + OriginOffset[1] = center(Bounds)[1]
    /\ top(Bounds) + OriginOffset[2] = center(Bounds)[2]
\* The style tables without a transform-origin.
NoOriginProps == [ props EXCEPT !.transform_origin = EmptyTable ]

\* C18: with a transform-origin styled at the center of the bounds, transform
\* returns the map it returns for the same translate, rotate, scale and
\* function list with no transform-origin styled.
C18_OriginBracketed ==
    (TransformCalled /\ OriginAtCenter) =>
        out.value = transform_value(NoOriginProps, cache, current)

\* transform was called with an origin at the center of a box whose corner
\* is not at zero, on a rotated entity, where the origin changes the result.
C18_Witness ==
    /\ TransformCalled
    /\ OriginAtCenter
    /\ left(Bounds) # 0
    /\ current \in DOMAIN props.rotate
    /\ out.value # identity
    /\ out.value # transform_value(
                       [ props EXCEPT !.transform_origin =
                             Row(current, Translate(LengthPx(0), LengthPx(0))) ],
                       cache, current)

AnimationActive == current \in DOMAIN props.transform_animation
Keyframes == props.transform_animation[current].keyframes
\* The interpolation at t between the maps of the first and the last keyframe.
Interpolation ==
    interpolate(list_into_transform(Keyframes[1][2], Bounds, props.dpi_factor),
                list_into_transform(Keyframes[Len(Keyframes)][2], Bounds,
                                    props.dpi_factor),
                props.transform_animation[current].t)

C19_WitnessStatic ==
    /\ TransformCalled
    /\ AnimationActive
    /\ Keyframes # << >>
    /\ current \in DOMAIN props.transform
    /\ list_into_transform(props.transform[current], Bounds, props.dpi_factor)
           # Interpolation

\* ------------------------------------------------------------------------
\* Properties of the Draw View accessors
\* ------------------------------------------------------------------------
UnitAccessors == { "child_left", "child_right", "child_top", "child_bottom" }
\* The table the accessor of the name reads.
UnitTable(name) ==
    IF name = "child_left" THEN props.child_left
    ELSE IF name = "child_right" THEN props.child_right
    ELSE IF name = "child_top" THEN props.child_top
    ELSE props.child_bottom
\* The last call was a unit-typed accessor that found a pixel unit.
UnitFoundPixels ==
    /\ out.op \in UnitAccessors
    /\ current \in DOMAIN UnitTable(out.op)
    /\ UnitTable(out.op)[current].kind = "Pixels"
\* The stored pixel value times the dpi factor.
ScaledPixels == FxMul(UnitTable(out.op)[current].v, props.dpi_factor)
\* The accessor returned every unit that is not a pixel unit as stored, and
\* the default for no stored unit.
OtherUnitsUnmodified ==
    (out.op \in UnitAccessors /\ ~UnitFoundPixels) =>
        out.value = IF current \in DOMAIN UnitTable(out.op)
                    THEN UnitTable(out.op)[current]
                    ELSE UnitsDefault

\* C20 as stated: a unit-typed accessor returns, for a stored pixel unit p,
\* the pixel unit p x dpi_factor rounded to the nearest whole pixel, every
\* other unit as stored, and the default for no stored unit.
C20_UnitsScaledAndRounded ==
    /\ UnitFoundPixels => out.value = Pixels(round(ScaledPixels))
    /\ OtherUnitsUnmodified

\* C20, amended: a unit-typed accessor returns, for a stored pixel unit p,
\* the pixel unit p x dpi_factor without rounding, every other unit as
\* stored, and the default for no stored unit.
C20_UnitsScaledUnrounded ==
    /\ UnitFoundPixels => out.value = Pixels(ScaledPixels)
    /\ OtherUnitsUnmodified

\* An accessor found a pixel unit whose scaled value is not a whole pixel.
C20_Witness ==
    /\ UnitFoundPixels
    /\ ScaledPixels # round(ScaledPixels)
    /\ out.value = Pixels(ScaledPixels)

LengthAccessors ==
    { "border_width", "outline_width", "outline_offset",
      "border_top_left_radius", "border_top_right_radius",
      "border_bottom_left_radius", "border_bottom_right_radius" }
\* The table the length accessor of the name reads.
LengthTable(name) ==
    IF name = "border_width" THEN props.border_width
    ELSE IF name = "outline_width" THEN props.outline_width
    ELSE IF name = "outline_offset" THEN props.outline_offset
    ELSE IF name = "border_top_left_radius" THEN props.border_top_left_radius
    ELSE IF name = "border_top_right_radius" THEN props.border_top_right_radius
    ELSE IF name = "border_bottom_left_radius" THEN props.border_bottom_left_radius
    ELSE props.border_bottom_right_radius
\* The last call was a length accessor.
LengthCalled == out.op \in LengthAccessors
\* The length the last accessor found, if it found one.
LengthFound == current \in DOMAIN LengthTable(out.op)
StoredLength == LengthTable(out.op)[current]
\* The smaller side of the bounds of the entity.
MinSide == IF Bounds.w <= Bounds.h THEN Bounds.w ELSE Bounds.h
\* A value in hundredths rounded to the nearest whole number.
Nearest(v) == ((v + F \div 2) \div F) * F

\* C21: a length accessor of the Draw View resolves a percentage against the
\* smaller side of the own bounds and a pixel length to its own value,
\* multiplies by the dpi factor and rounds to the nearest whole pixel; an
\* absent property gives 0; 50% with bounds 100 x 40 at dpi factor 1 gives 20.
C21_LengthAsPixels ==
    LengthCalled =>
        /\ (LengthFound /\ StoredLength.kind = "Percentage") =>
               out.value = Nearest(FxMul(FxMul(StoredLength.v, MinSide),
                                         props.dpi_factor))
        /\ (LengthFound /\ StoredLength.kind = "Px") =>
               out.value = Nearest(FxMul(StoredLength.v, props.dpi_factor))
        /\ ~LengthFound => out.value = 0
        /\ (/\ LengthFound
            /\ StoredLength = Percentage(F \div 2)
            /\ Bounds.w = Px(100) /\ Bounds.h = Px(40)
            /\ props.dpi_factor = F) => out.value = Px(20)

\* A length accessor found 10% on a box whose height is the smaller side, at
\* dpi factor 1.5, where the scaled value is not whole and was rounded.
C21_Witness ==
    /\ LengthCalled
    /\ LengthFound
    /\ StoredLength = Percentage(F \div 10)
    /\ Bounds.h < Bounds.w
    /\ props.dpi_factor # F
    /\ out.value # FxMul(FxMul(StoredLength.v, MinSide), props.dpi_factor)
    /\ out.value = Px(2)

ColorAccessors ==
    { "font_color", "background_color", "border_color", "outline_color",
      "selection_color", "caret_color" }
\* The table the color accessor of the name reads.
ColorTable(name) ==
    IF name = "font_color" THEN props.font_color
    ELSE IF name = "background_color" THEN props.background_color
    ELSE IF name = "border_color" THEN props.border_color
    ELSE IF name = "outline_color" THEN props.outline_color
    ELSE IF name = "selection_color" THEN props.selection_color
    ELSE props.caret_color
ColorCalled == out.op \in ColorAccessors
ColorSet == current \in DOMAIN ColorTable(out.op)
StoredColor == ColorTable(out.op)[current]

\* C22: an unset color resolves to its default whatever the opacity, opaque
\* black for font_color and alpha 0 for the other colors; a set color keeps
\* its r, g and b, and its alpha is the whole part of the stored alpha times
\* the cached opacity of the entity.
C22_ColorDefaultsAndOpacity ==
    ColorCalled =>
        /\ (~ColorSet /\ out.op = "font_color") => out.value = rgba(0, 0, 0, 255)
        /\ (~ColorSet /\ out.op # "font_color") => out.value.a = 0
        /\ ColorSet =>
               /\ out.value.r = StoredColor.r
               /\ out.value.g = StoredColor.g
               /\ out.value.b = StoredColor.b
               /\ out.value.a * F <= StoredColor.a * cache.opacity[current]
               /\ StoredColor.a * cache.opacity[current] < (out.value.a + 1) * F

\* font_color was called with no color set on an entity that is not opaque.
C22_Witness ==
    /\ out.op = "font_color"
    /\ ~ColorSet
    /\ cache.opacity[current] = F \div 2
    /\ out.value.a = 255

\* A color accessor found a color on an entity that is half transparent.
C22_WitnessSet ==
    /\ ColorCalled
    /\ ColorSet
    /\ cache.opacity[current] = F \div 2
    /\ out.value.a = 127

\* ------------------------------------------------------------------------
\* Properties of the shadows
\* ------------------------------------------------------------------------
ShadowsCalled == out.op = "draw_shadows"
\* The shadows declared for the entity drawn.
Shadows == Get(props.box_shadow, current, << >>)
\* The positions, in the commands of the last call, of the commands of the
\* kind for the shadow of the index.
Positions(cmd, i) ==
    { k \in DOMAIN out.commands :
        out.commands[k].cmd = cmd /\ out.commands[k].shadow = i }

\* C23: draw_shadows composites each shadow onto the screen once, a shadow
\* declared later before a shadow declared earlier, and the offscreen render
\* of a shadow and its blur, when it has one, come before its own composite.
C23_ShadowsInReverseOrder ==
    ShadowsCalled =>
        /\ \A i \in DOMAIN Shadows : Cardinality(Positions("composite", i)) = 1
        /\ \A i, j \in DOMAIN Shadows :
               i < j => \A ki \in Positions("composite", i),
                           kj \in Positions("composite", j) : kj < ki
        /\ \A i \in DOMAIN Shadows :
               /\ Cardinality(Positions("render", i)) = 1
               /\ Cardinality(Positions("filter_image", i))
                      = IF blur_radius_of(Shadows[i]) > 0 THEN 1 ELSE 0
               /\ \A kc \in Positions("composite", i) :
                      /\ \A kr \in Positions("render", i) : kr < kc
                      /\ \A kb \in Positions("filter_image", i) :
                             /\ kb < kc
                             /\ \A kr \in Positions("render", i) : kr < kb

\* draw_shadows ran on three shadows of which the first has a blur.
C23_Witness ==
    /\ ShadowsCalled
    /\ Len(Shadows) = 3
    /\ Positions("filter_image", 3) # {}
    /\ out.commands[Len(out.commands)].cmd = "composite"
    /\ out.commands[Len(out.commands)].shadow = 1

\* The images that the last draw_shadows call created.
ImagesCreated == canvas.images - out.images

\* C24 as stated: the offscreen images of the shadows of an entity are kept
\* in its draw-cache row once it was drawn, and a later draw_shadows call for
\* the entity with the same padded dimensions creates no image.
C24_ShadowBuffersReused ==
    (ShadowsCalled /\ Shadows # << >>) =>
        /\ current \in DOMAIN draw_cache.shadow_image
        /\ out.images > 0 => ImagesCreated = 0

\* draw_shadows was called a second time for the same entity with the same
\* bounds and shadows: it created two more images for every shadow and the
\* draw cache holds no row.
C24_Witness ==
    /\ ShadowsCalled
    /\ Shadows # << >>
    /\ out.images = 2 * Len(Shadows)
    /\ ImagesCreated = 2 * Len(Shadows)
    /\ draw_cache.shadow_image = EmptyTable

\* ------------------------------------------------------------------------
\* Properties of the gradient
\* ------------------------------------------------------------------------
GradientCalled == out.op = "draw_gradient"
\* The entity drawn has a linear background gradient.
LinearStyled ==
    /\ current \in DOMAIN props.background_gradient
    /\ props.background_gradient[current].kind = "Linear"
Direction == props.background_gradient[current].direction
\* The end point of the paint, from its start point.
EndOffset ==
    << out.paint.end[1] - out.paint.start[1], out.paint.end[2] - out.paint.start[2] >>

\* C25: for an entity with a layout parent, a linear gradient runs from the
\* corner of the bounds by (bounds.w, 0) for left or right, by (0, bounds.h)
\* for top or bottom, by (bounds.w, bounds.h) for the corner (right, bottom),
\* and by (0, 0) for every other direction; no direction makes the call fail.
C25_GradientEndPoint ==
    (GradientCalled /\ LinearStyled /\ current # Root) =>
        /\ ~out.panicked
        /\ out.paint.kind = "linear_gradient"
        /\ out.paint.start = << Bounds.x, Bounds.y >>
        /\ EndOffset =
               IF Direction.kind = "Horizontal" THEN << Bounds.w, 0 >>
               ELSE IF Direction.kind = "Vertical" THEN << 0, Bounds.h >>
               ELSE IF Direction = Corner("Right", "Bottom")
               THEN << Bounds.w, Bounds.h >>
               ELSE << 0, 0 >>

\* draw_gradient ran for the corner (left, top) and gave a gradient whose
\* end point is its start point.
C25_Witness ==
    /\ GradientCalled
    /\ LinearStyled
    /\ current # Root
    /\ Direction = Corner("Left", "Top")
    /\ out.paint.kind = "linear_gradient"
    /\ out.paint.end = out.paint.start
    /\ Bounds.w > 0

\* C28: draw_gradient called for an entity without layout parent, the root,
\* panics and leaves the paint alone, with or without a background gradient.
C28_RootGradientPanics ==
    (GradientCalled /\ current = Root) =>
        /\ out.panicked
        /\ out.paint = PaintUnchanged

\* draw_gradient was called for the root with no background gradient.
C28_Witness ==
    /\ GradientCalled
    /\ current = Root
    /\ current \notin DOMAIN props.background_gradient
    /\ out.panicked

\* ------------------------------------------------------------------------
\* Properties of the typed ancestor lookup
\* ------------------------------------------------------------------------
DataCalled == out.op = "data"
\* The entity has a stored model or a view of the type.
HasData(e, T) == T \in data.models[e] \/ data.views[e] = T
\* The places on the chain of the invoking entity that have the type.
Matches(T) ==
    { k \in 1 .. Len(parent_iter(tree, current)) :
        HasData(parent_iter(tree, current)[k], T) }
\* The nearest of them.
NearestMatch(T) == CHOOSE k \in Matches(T) : \A m \in Matches(T) : k <= m

\* C26: data<T>() gives the value of the nearest entity, from the invoking
\* one up to the root, with a stored model or a view of type T, the model
\* before the view at one entity; absent when none has; present for the unit
\* type whatever is stored; and both views give the same for the same state.
C26_NearestData ==
    /\ DataCalled =>
        /\ out.type = UnitType => out.value.some
        /\ (out.type # UnitType /\ Matches(out.type) = {}) => out.value = None
        /\ (out.type # UnitType /\ Matches(out.type) # {}) =>
               LET e == parent_iter(tree, current)[NearestMatch(out.type)]
               IN  /\ out.value.some
                   /\ out.value.entity = e
                   /\ out.value.from =
                          IF out.type \in data.models[e] THEN "model" ELSE "view"
    /\ \A T \in QueryTypes :
           event_data(data, tree, current, T) = draw_data(data, tree, current, T)

\* data() found the type at an ancestor that has both a model and a view of
\* it, past an invoking entity that has neither.
C26_Witness ==
    /\ DataCalled
    /\ out.type = "AppData"
    /\ ~HasData(current, "AppData")
    /\ out.value.some
    /\ out.value.entity # current
    /\ out.value.from = "model"
    /\ data.views[out.value.entity] = "AppData"

\* ------------------------------------------------------------------------
\* Properties of the detached work
\* ------------------------------------------------------------------------
\* The events on their way: those in the channel, then those in the queue.
InFlight == event_queue \o detached.sent
\* How often the event occurs among them.
Occurrences(e) == Cardinality({ k \in DOMAIN InFlight : InFlight[k] = e })
\* Everything but the detached work and the event queue.
sharedVars ==
    << tree, current, pseudo_classes, classes, focused, captured, hovered,
       cursor, system_flags, cursor_icon_locked, window_size,
       user_scale_factor, themes, stylesheets, rules, listeners,
       ignore_default_theme, last_capture, props, cache, out, canvas,
       draw_cache, data >>

RoundTrip ==
    /\ out.op = "logical_to_physical"
    /\ out'.op = "physical_to_logical"
    /\ out'.arg = out.value

\* C29: in the Draw View physical_to_logical is the inverse of
\* logical_to_physical, so that converting a length to physical pixels and
\* the result back gives the length again for every scale factor, and both
\* conversions give what the conversions of the Event View give.
C29_PhysicalToLogicalInverts ==
    /\ [](out.op = "logical_to_physical"
            => out.value = event_logical_to_physical(props, out.arg))
    /\ [](out.op = "physical_to_logical"
            => out.value = event_physical_to_logical(props, out.arg))
    /\ [][RoundTrip => out'.value = out.arg]_vars

\* A length has been converted to physical pixels and back with a scale
\* factor other than 1.
C29_Witness ==
    /\ out.op = "physical_to_logical"
    /\ props.dpi_factor # F
    /\ out.arg = logical_to_physical(props, Px(2))

C31_FailedReloadDropsRules ==
    [][ \A u \in SUBSET StylesheetFiles :
          (reload_styles(u) /\ last'.result = "Err") =>
             /\ rules' = << >>
             /\ system_flags' = system_flags
             /\ ~last'.parsed ]_vars

\* A reload of the view as constructed, with the built-in rules installed
\* and no flag set, has failed on the second of its files.
C31_Witness ==
    /\ last.op = "reload_styles"
    /\ last.result = "Err"
    /\ Len(last.reads) = 2
    /\ rules = << >>
    /\ system_flags = {}

\* ------------------------------------------------------------------------
\* Properties of the event queue
\* ------------------------------------------------------------------------
\* The operations that queue one event, and those the claim names as
\* queueing none.
EmitOps == {"emit", "emit_to", "emit_custom", "unlock_cursor_icon"}
QuietOps == {"capture", "release", "lock_cursor_icon", "set_active",
             "set_hover", "set_checked", "set_selected"}
\* The step is a call of an operation.
IsCall == calls' # calls

\* C32: the event queue is append-only under the Event View: every
\* operation leaves the events already queued unchanged and in the same
\* order and only appends at the back, so that events are queued in the order
\* of the calls that emitted them; emit, emit_to, emit_custom and
\* unlock_cursor_icon append one event, a focus call two or none, and
\* capture, release, lock_cursor_icon and the pseudo-class setters none.
C32_QueueAppendOnly ==
    [][ /\ Len(event_queue') >= Len(event_queue)
        /\ SubSeq(event_queue', 1, Len(event_queue)) = event_queue
        /\ (IsCall /\ last'.op \in EmitOps) =>
              Len(event_queue') = Len(event_queue) + 1
        /\ (IsCall /\ last'.op \in {"focus", "focus_with_visibility"}) =>
              Len(event_queue') \in {Len(event_queue), Len(event_queue) + 2}
        /\ (IsCall /\ last'.op \in QuietOps) =>
              event_queue' = event_queue ]_vars

\* A view has emitted a message behind the two events of an earlier move of
\* the focus, which are still at the front in their order.
C32_Witness ==
    /\ last.op = "emit"
    /\ Len(event_queue) = 3
    /\ event_queue[1].message = << "FocusOut" >>
    /\ event_queue[2].message = << "FocusIn" >>
    /\ event_queue[3].origin = last.current
    /\ event_queue[3].propagation = "Up"

====
